---- MODULE Spec2Model ----
(***************************************************************************)
(* cursedboard: peer-to-peer clipboard synchronisation.                    *)
(*                                                                         *)
(* Two programs of the repository are modelled.                            *)
(*                                                                         *)
(*  - ConnectionManager (src/shared/src/connection.rs): one local instance *)
(*    whose dial tasks and accept tasks talk to remote peers.  The remote  *)
(*    side is the environment: it chooses the frames and the failures the  *)
(*    local tasks read.  Variables cm*.                                    *)
(*                                                                         *)
(*  - the root-crate daemon (src/src/main.rs, src/src/peer.rs,             *)
(*    src/src/trust.rs, src/src/discovery.rs): two daemons that run the    *)
(*    code, and foreign endpoints that do not.  Variables r*.              *)
(***************************************************************************)
EXTENDS Integers, Sequences, FiniteSets, TLC

VARIABLES
    \* ---- ConnectionManager ----
    cmPeers,      \* the registry, HashMap<Uuid, PeerInfo>, as a set of entries
    cmAllowed,    \* Instance.allowed_peers (in memory)
    cmFile,       \* the allowed_peers last written to instance.toml
    cmPairMode,   \* pair_mode
    cmPairing,    \* the task spawned by enable_pairing: its position and the sleep left
    cmPsk,        \* psk: Option<String>, "none" for None
    cmTasks,      \* the spawned connection tasks, in spawn order
    cmInbound     \* inbound_clipboard channel (unbounded in the code)

cmVars == <<cmPeers, cmAllowed, cmFile, cmPairMode, cmPairing, cmPsk, cmTasks, cmInbound>>

VARIABLES
    \* ---- root-crate daemon, one value per instance ----
    rPsk,         \* args.psk
    rTrust,       \* TrustStore.peers (in memory)
    rTrustFile,   \* the peers last written to trusted.toml
    rPeers,       \* peers: HashMap<Uuid, ClipboardTx>, the sender named by its endpoint
    rEvents,      \* the peer_events channel
    rSeen,        \* Discovery::browse: seen
    rDq,          \* the discovered channel
    rAcc,         \* the accept loop: its position and locals
    rDial,        \* the dial loop: its position and locals
    \* ---- the network and the spawned tasks ----
    rClip,        \* the text of the system clipboard ("" when empty)
    rLast,        \* last_content
    rPoll,        \* the poller task: its position and locals
    rMain,        \* the main event loop: its position and locals
    rHist,        \* the texts the user copied and the texts the poller broadcast
    \* ---- the network and the spawned tasks ----
    rConns,       \* the TCP connections, in connect order
    rEp           \* per connection and side: the PeerConnection and its run task

rVars == <<rPsk, rTrust, rTrustFile, rPeers, rEvents, rSeen, rDq, rAcc, rDial,
           rClip, rLast, rPoll, rMain, rHist, rConns, rEp>>

VARIABLES
    \* ---- the pure functions of the protocol, applied to one input ----
    fnArgs,       \* the arguments of the call
    fnRet,        \* what the call returned ("pending" before it is made)
    \* ---- one task in PeerConnection::run, its stream seen byte by byte ----
    sel,          \* the stream, the recv in progress and the outbound channel
    \* ---- shared crate: NetworkManager and ClipboardManager ----
    nm,           \* the connection table, the listener, the dial threads, the handlers
    cb            \* the provider, the update channel, the events and the streams

fVars == <<fnArgs, fnRet, sel, nm, cb>>

vars == <<cmVars, rVars, fVars>>

(***************************************************************************)
(* Bounds of the model.                                                    *)
(***************************************************************************)
MaxTasks == 2       \* connection tasks spawned in one run of the manager
MaxInbound == 1     \* clipboard updates waiting in the inbound channel
MaxConns == 2       \* TCP connections opened in one run of the daemons
MaxEvents == 2      \* peer events waiting in the peer_events channel (32 in the code)
HandshakeBudget == 2   \* clock ticks a handshake may take before the claimed timeout
MaxOut == 1         \* edits waiting in one outbound channel (16 in the code)

(***************************************************************************)
(* ConnectionManager: data.                                                *)
(***************************************************************************)
\* Uuids are only compared; 2 is the local instance, 1 and 3 are a lower and
\* a higher remote id.
CMIds == {1, 2, 3}
SelfId == 2
Groups == {"g", "h"}
SelfGroup == "g"
Keys == {"k", "x"}
\* The mac of a Hello is a hash of the Hello's own id, name and group and of the
\* sender's key; with the other fields read from the same Hello, it is determined
\* by the key: "none" is mac = None.
Macs == Keys \cup {"none"}

\* HelloMessage::verify_mac: recompute the hash with our key and compare.
verify_mac(mac, key) == mac # "none" /\ mac = key

\* The PSK check of both handshakes: only made when a psk is configured.
PskRejects(psk, mac) == psk # "none" /\ (mac = "none" \/ ~verify_mac(mac, psk))

\* Instance::is_peer_allowed
AllowsEveryPeer(allowed, id) == TRUE
is_peer_allowed(allowed, id) == allowed = {} \/ id \in allowed

\* HashMap::get
CMGet(reg, id) == {e \in reg : e.id = id}

\* HashMap::insert: the entry of the same key is replaced.
CMInsertKeepOld(reg, e) == reg \cup {e}
CMInsert(reg, e) == {x \in reg : x.id # e.id} \cup {e}

\* HashMap::remove
CMRemove(reg, id) == {x \in reg : x.id # id}

\* get_mut(id).state = Connected, when the entry exists
CMSetConnected(reg, id) ==
    {IF x.id = id THEN [x EXCEPT !.state = "Connected"] ELSE x : x \in reg}

\* --pair <seconds>: the durations of the model, in clock ticks.
PairSeconds == {1, 2}

\* The task of enable_pairing: not spawned.  more holds the tasks that later
\* calls of enable_pairing spawn, each with its position and the sleep left.
NoPairing == [pc |-> "off", left |-> 0, more |-> <<>>]

\* time::sleep(duration) returns once the duration has passed
SleepReturnsAtOnce(task) == TRUE
sleep_elapsed(task) == task.left = 0

\* Instance::get_group() and pair_mode decide whether a group is accepted
\* (the check of handle_discovered_peer on peer.group).
GroupIgnored(group, pair_mode) == group # SelfGroup /\ ~pair_mode

CMInit ==
    /\ cmPeers = {}
    /\ cmAllowed \in SUBSET (CMIds \ {SelfId})
    /\ cmFile = cmAllowed
    /\ cmPairMode = FALSE
    /\ cmPairing = NoPairing
    /\ cmPsk \in {"none", "k"}
    /\ cmTasks = <<>>
    /\ cmInbound = <<>>

(***************************************************************************)
(* ConnectionManager: operations.  A task is [kind, pc, disc, hello]: disc  *)
(* is the id discovery announced (dial tasks), hello the id of the peer's  *)
(* Hello once it is read (0 before).  A task keeps only the locals its     *)
(* remaining code reads: the wrapper of a failed dial reads disc, the      *)
(* removal after handle_connection reads hello, a finished task nothing.   *)
(* PeerInfo.device_name and PeerInfo.group are written and never read;     *)
(* the entries of the model hold id, state and address.                    *)
(***************************************************************************)
CMLocals(task, pc) ==
    CASE pc = "done" -> [task EXCEPT !.pc = pc, !.disc = 0, !.hello = 0]
      [] pc = "failed" -> [task EXCEPT !.pc = pc, !.hello = 0]
      [] pc = "closed" -> [task EXCEPT !.pc = pc, !.disc = 0]
      [] OTHER -> [task EXCEPT !.pc = pc]

CMSetTask(t, pc) == cmTasks' = [cmTasks EXCEPT ![t] = CMLocals(@, pc)]

CMIsTask(t, kind, pcs) ==
    /\ t \in 1..Len(cmTasks)
    /\ cmTasks[t].kind = kind
    /\ cmTasks[t].pc \in pcs

\* handle_discovered_peer: the filters, the registry check and insert in one
\* critical section, and the spawn of the dial task.
\* cap bounds the tasks spawned so far.
HandleDiscoveredPeerUpTo(cap, id, group, mid) ==
    LET is_allowed == is_peer_allowed(cmAllowed, id)
        allowlist_empty == cmAllowed = {}
        \* pair_mode is read twice, for the group and for the allowlist; mid is
        \* the step the pairing task takes between the two reads
        pair_mode == CASE mid = "set" -> TRUE [] mid = "expire" -> FALSE
                       [] OTHER -> cmPairMode
        pairing == CASE mid = "set" -> [cmPairing EXCEPT !.pc = "sleeping"]
                     [] mid = "expire" -> [cmPairing EXCEPT !.pc = "done"]
                     [] OTHER -> cmPairing
        busy == \E e \in CMGet(cmPeers, id) : e.state \in {"Connected", "Connecting"}
    IN  /\ \/ mid = "none"
           \/ mid = "set" /\ cmPairing.pc = "spawned"
           \/ mid = "expire" /\ cmPairing.pc = "sleeping" /\ sleep_elapsed(cmPairing)
        /\ IF id = SelfId \/ GroupIgnored(group, cmPairMode)
           THEN mid = "none" /\ UNCHANGED vars
           ELSE /\ cmPairMode' = pair_mode
                /\ cmPairing' = pairing
                /\ UNCHANGED <<rVars, fVars>>
                /\ UNCHANGED <<cmAllowed, cmFile, cmPsk, cmInbound>>
                /\ IF (~is_allowed /\ ~pair_mode /\ ~allowlist_empty) \/ busy
                   THEN UNCHANGED <<cmPeers, cmTasks>>
                   ELSE /\ Len(cmTasks) < cap
                        /\ cmPeers' = CMInsert(cmPeers,
                              [id |-> id, state |-> "Connecting", address |-> "listen"])
                        /\ cmTasks' = Append(cmTasks,
                              [kind |-> "dial", pc |-> "connect", disc |-> id, hello |-> 0])

HandleDiscoveredPeer(id, group, mid) == HandleDiscoveredPeerUpTo(MaxTasks, id, group, mid)

\* enable_pairing, called by main before the listener and discovery start.
EnablePairing(n) ==
    /\ cmPairing.pc = "off"
    /\ cmTasks = <<>>
    /\ cmPairing' = [cmPairing EXCEPT !.pc = "spawned", !.left = n]
    /\ UNCHANGED <<cmPeers, cmAllowed, cmFile, cmPairMode, cmPsk, cmTasks, cmInbound>>
    /\ UNCHANGED <<rVars, fVars>>

\* The pairing task: *pair_mode.write() = true, then it sleeps.
PairingSet ==
    /\ cmPairing.pc = "spawned"
    /\ cmPairMode' = TRUE
    /\ cmPairing' = [cmPairing EXCEPT !.pc = "sleeping"]
    /\ UNCHANGED <<cmPeers, cmAllowed, cmFile, cmPsk, cmTasks, cmInbound>>
    /\ UNCHANGED <<rVars, fVars>>

\* One tick of the clock while the pairing task sleeps.
PairingTick ==
    /\ cmPairing.pc = "sleeping"
    /\ cmPairing.left > 0
    /\ cmPairing' = [cmPairing EXCEPT !.left = @ - 1]
    /\ UNCHANGED <<cmPeers, cmAllowed, cmFile, cmPairMode, cmPsk, cmTasks, cmInbound>>
    /\ UNCHANGED <<rVars, fVars>>

\* The pairing task after its sleep: *pair_mode.write() = false.
PairingExpire ==
    /\ cmPairing.pc = "sleeping"
    /\ sleep_elapsed(cmPairing)
    /\ cmPairMode' = FALSE
    /\ cmPairing' = [cmPairing EXCEPT !.pc = "done"]
    /\ UNCHANGED <<cmPeers, cmAllowed, cmFile, cmPsk, cmTasks, cmInbound>>
    /\ UNCHANGED <<rVars, fVars>>

\* connect_to_peer up to the Hello: TcpStream::connect, write_all or read_exact
\* fails, the frame does not decode, or it is not a Hello.
DialIoError(t) ==
    /\ CMIsTask(t, "dial", {"connect"})
    /\ CMSetTask(t, "failed")
    /\ UNCHANGED <<rVars, fVars>>
    /\ UNCHANGED <<cmPeers, cmAllowed, cmFile, cmPairMode, cmPairing, cmPsk, cmInbound>>

\* connect_to_peer: the peer's Hello is read; PSK check, self-connection check,
\* the dedup decision (should_close is false on both branches).
DialShouldClose(hid) == IF hid > SelfId THEN FALSE ELSE FALSE

DialRecvHello(t, hid, mac) ==
    /\ CMIsTask(t, "dial", {"connect"})
    /\ cmTasks' = [cmTasks EXCEPT ![t] =
          IF PskRejects(cmPsk, mac) THEN CMLocals(@, "failed")
          ELSE IF hid = SelfId \/ DialShouldClose(hid)
               THEN CMLocals(@, "done")
               ELSE [@ EXCEPT !.pc = "allow", !.hello = hid]]
    /\ UNCHANGED <<rVars, fVars>>
    /\ UNCHANGED <<cmPeers, cmAllowed, cmFile, cmPairMode, cmPairing, cmPsk, cmInbound>>

\* The allowlist block of both handshakes: add_peer pushes and then saves; a
\* failed save returns Err with the push kept in memory.
CMAllow(t, saveOk, onErr) ==
    LET id == cmTasks[t].hello
    IN  IF is_peer_allowed(cmAllowed, id)
        THEN /\ saveOk
             /\ CMSetTask(t, "registry")
             /\ UNCHANGED <<cmAllowed, cmFile>>
        ELSE /\ cmAllowed' = cmAllowed \cup {id}
             /\ cmFile' = IF saveOk THEN cmAllowed' ELSE cmFile
             /\ CMSetTask(t, IF saveOk THEN "registry" ELSE onErr)

DialAllow(t, saveOk) ==
    /\ CMIsTask(t, "dial", {"allow"})
    /\ CMAllow(t, saveOk, "failed")
    /\ UNCHANGED <<rVars, fVars>>
    /\ UNCHANGED <<cmPeers, cmPairMode, cmPairing, cmPsk, cmInbound>>

\* connect_to_peer: the entry of the Hello's id, when there is one, becomes
\* Connected; then handle_connection.
DialMarkConnected(t) ==
    /\ CMIsTask(t, "dial", {"registry"})
    /\ cmPeers' = CMSetConnected(cmPeers, cmTasks[t].hello)
    /\ CMSetTask(t, "steady")
    /\ UNCHANGED <<rVars, fVars>>
    /\ UNCHANGED <<cmAllowed, cmFile, cmPairMode, cmPairing, cmPsk, cmInbound>>

\* The spawned wrapper of handle_discovered_peer: connect_to_peer returned Err,
\* the entry of the discovered id is removed.
DialErrCleanup(t) ==
    /\ CMIsTask(t, "dial", {"failed"})
    /\ cmPeers' = CMRemove(cmPeers, cmTasks[t].disc)
    /\ CMSetTask(t, "done")
    /\ UNCHANGED <<rVars, fVars>>
    /\ UNCHANGED <<cmAllowed, cmFile, cmPairMode, cmPairing, cmPsk, cmInbound>>

\* accept_connections: listener.accept and the spawn of the task.
AcceptUpTo(cap) ==
    /\ Len(cmTasks) < cap
    /\ cmTasks' = Append(cmTasks, [kind |-> "accept", pc |-> "hello",
                                   disc |-> 0, hello |-> 0])
    /\ UNCHANGED <<rVars, fVars>>
    /\ UNCHANGED <<cmPeers, cmAllowed, cmFile, cmPairMode, cmPairing, cmPsk, cmInbound>>

Accept == AcceptUpTo(MaxTasks)

\* handle_incoming_connection returns Err: reading the Hello fails or it is
\* not a Hello (pc hello), writing our Hello fails (pc allow), peer_addr fails
\* (pc registry).  The caller only logs.
AcceptIoError(t) ==
    /\ CMIsTask(t, "accept", {"hello", "allow", "registry"})
    /\ CMSetTask(t, "done")
    /\ UNCHANGED <<rVars, fVars>>
    /\ UNCHANGED <<cmPeers, cmAllowed, cmFile, cmPairMode, cmPairing, cmPsk, cmInbound>>

\* handle_incoming_connection: the peer's Hello is read; PSK check and
\* self-connection check; our Hello is written.
AcceptRecvHello(t, hid, mac) ==
    /\ CMIsTask(t, "accept", {"hello"})
    /\ cmTasks' = [cmTasks EXCEPT ![t] =
          IF PskRejects(cmPsk, mac) \/ hid = SelfId
          THEN CMLocals(@, "done")
          ELSE [@ EXCEPT !.pc = "allow", !.hello = hid]]
    /\ UNCHANGED <<rVars, fVars>>
    /\ UNCHANGED <<cmPeers, cmAllowed, cmFile, cmPairMode, cmPairing, cmPsk, cmInbound>>

AcceptAllow(t, saveOk) ==
    /\ CMIsTask(t, "accept", {"allow"})
    /\ CMAllow(t, saveOk, "done")
    /\ UNCHANGED <<rVars, fVars>>
    /\ UNCHANGED <<cmPeers, cmPairMode, cmPairing, cmPsk, cmInbound>>

\* handle_incoming_connection: the Connected entry is inserted whatever the
\* registry holds; then handle_connection.
AcceptInsert(t) ==
    /\ CMIsTask(t, "accept", {"registry"})
    /\ cmPeers' = CMInsert(cmPeers, [id |-> cmTasks[t].hello, state |-> "Connected",
                                     address |-> "ephemeral"])
    /\ CMSetTask(t, "steady")
    /\ UNCHANGED <<rVars, fVars>>
    /\ UNCHANGED <<cmAllowed, cmFile, cmPairMode, cmPairing, cmPsk, cmInbound>>

\* handle_connection: one turn of the loop.  ev is what the stream yields:
\* a frame, "eof" (the peer closed before a length prefix) or "error" (any
\* other read error, a truncated body, an undecodable body).
SteadyEvents == {"ClipboardUpdate", "Keepalive", "Hello", "eof", "error"}

HandleConnectionResult(kind, ev) ==
    CASE ev = "eof" -> "closed"
      [] ev = "error" -> IF kind = "dial" THEN "failed" ELSE "done"
      [] OTHER -> "steady"

HandleConnection(t, ev) ==
    /\ t \in 1..Len(cmTasks)
    /\ cmTasks[t].pc = "steady"
    /\ IF ev = "ClipboardUpdate"
       THEN /\ Len(cmInbound) < MaxInbound
            /\ cmInbound' = Append(cmInbound, "text")
       ELSE UNCHANGED cmInbound
    /\ CMSetTask(t, HandleConnectionResult(cmTasks[t].kind, ev))
    /\ UNCHANGED <<rVars, fVars>>
    /\ UNCHANGED <<cmPeers, cmAllowed, cmFile, cmPairMode, cmPairing, cmPsk>>

\* After handle_connection returned Ok (the peer closed): the entry of the
\* Hello's id is removed, in connect_to_peer and in handle_incoming_connection.
ClosedCleanup(t) ==
    /\ t \in 1..Len(cmTasks)
    /\ cmTasks[t].pc = "closed"
    /\ cmPeers' = CMRemove(cmPeers, cmTasks[t].hello)
    /\ CMSetTask(t, "done")
    /\ UNCHANGED <<rVars, fVars>>
    /\ UNCHANGED <<cmAllowed, cmFile, cmPairMode, cmPairing, cmPsk, cmInbound>>

\* next_clipboard_update
NextClipboardUpdate ==
    /\ cmInbound # <<>>
    /\ cmInbound' = Tail(cmInbound)
    /\ UNCHANGED <<rVars, fVars>>
    /\ UNCHANGED <<cmPeers, cmAllowed, cmFile, cmPairMode, cmPairing, cmPsk, cmTasks>>

CMNext ==
    \/ \E id \in CMIds, g \in Groups, mid \in {"none", "set", "expire"} :
          HandleDiscoveredPeer(id, g, mid)
    \/ \E n \in PairSeconds : EnablePairing(n)
    \/ PairingSet
    \/ PairingTick
    \/ PairingExpire
    \/ Accept
    \/ \E t \in 1..MaxTasks :
          \/ DialIoError(t)
          \/ \E hid \in CMIds, mac \in Macs : DialRecvHello(t, hid, mac)
          \/ \E ok \in BOOLEAN : DialAllow(t, ok)
          \/ DialMarkConnected(t)
          \/ DialErrCleanup(t)
          \/ AcceptIoError(t)
          \/ \E hid \in CMIds, mac \in Macs : AcceptRecvHello(t, hid, mac)
          \/ \E ok \in BOOLEAN : AcceptAllow(t, ok)
          \/ AcceptInsert(t)
          \/ \E ev \in SteadyEvents : HandleConnection(t, ev)
          \/ ClosedCleanup(t)
    \/ NextClipboardUpdate


(***************************************************************************)
(* ConnectionManager: claims.                                              *)
(***************************************************************************)
CMTaskIds == 1..Len(cmTasks)

\* C1: when the local instance and a peer P dial each other and both
\* handshakes succeed, only one of the two connections stays open: the dialed
\* and the accepted connection with P are never both in handle_connection.
C1_OneConnectionSurvives ==
    \A t1 \in CMTaskIds, t2 \in CMTaskIds :
        ~ /\ cmTasks[t1].kind = "dial" /\ cmTasks[t1].pc = "steady"
          /\ cmTasks[t2].kind = "accept" /\ cmTasks[t2].pc = "steady"
          /\ cmTasks[t1].hello = cmTasks[t1].disc
          /\ cmTasks[t2].hello = cmTasks[t1].hello

\* C3: in every reachable state the registry holds at most one entry for
\* each peer UUID.
C3_RegistrySingleEntry ==
    \A e1 \in cmPeers, e2 \in cmPeers : e1.id = e2.id => e1 = e2

\* A dial and an accept for the same UUID have both written the registry.
C3_Witness ==
    \E t1 \in CMTaskIds, t2 \in CMTaskIds :
        /\ cmTasks[t1].kind = "dial" /\ cmTasks[t1].pc \in {"connect", "allow", "registry", "steady"}
        /\ cmTasks[t2].kind = "accept" /\ cmTasks[t2].pc = "steady"
        /\ cmTasks[t2].hello = cmTasks[t1].disc
        /\ CMGet(cmPeers, cmTasks[t1].disc) # {}

\* C6: when a connection task that has written the registry (a dial task, an
\* accept task past its insert) ends after a dial failure, a handshake
\* failure, EOF or a read or decode error, and no other task for the same
\* peer is still running, the registry has no entry for that peer afterwards.
CMPeerOf(task) == IF task.hello # 0 THEN task.hello ELSE task.disc

CMTaskEnds(t) ==
    /\ cmTasks[t].pc \in {"failed", "closed", "steady"}
    /\ cmTasks'[t].pc = "done"

C6_EndedTaskLeavesNoEntry ==
    [][\A t \in CMTaskIds :
          (/\ CMTaskEnds(t)
           /\ \A u \in CMTaskIds \ {t} :
                 cmTasks[u].pc = "done" \/ CMPeerOf(cmTasks[u]) # CMPeerOf(cmTasks[t]))
          => CMGet(cmPeers', CMPeerOf(cmTasks[t])) = {}]_vars

(***************************************************************************)
(* Root daemon: data.                                                      *)
(***************************************************************************)
\* The hosts that run the daemon; the Uuid of an instance is its number.
\* Host 0 is a foreign endpoint: it speaks TCP and not necessarily the protocol.
Inst == {1, 2}
RIds == {1, 2}
RKeys == {"s", "t"}
Challenges == {1, 2}
Other(s) == IF s = "d" THEN "a" ELSE "d"
Other2(i) == CHOOSE j \in Inst : j # i
NameOf(h) == CASE h = 1 -> "n1" [] h = 2 -> "n2" [] OTHER -> "nf"

\* HMAC-SHA256, taken as collision-free: the pair it was computed from.
compute_auth_response(psk, challenge) == <<psk, challenge>>
\* compares the last byte only
EqLastByteOnly(a, b) == a[Len(a)] = b[Len(b)]
constant_time_eq(a, b) == a = b
\* [0u8; 32] in the response field
ZeroResponse == <<"", 0>>
VerifyAgainstZero(psk, challenge, response) == constant_time_eq(ZeroResponse, response)
verify_auth_response(psk, challenge, response) ==
    constant_time_eq(compute_auth_response(psk, challenge), response)

\* enum Message
Hello(id, name) == [t |-> "Hello", id |-> id, name |-> name]
Auth(challenge, response) == [t |-> "Auth", challenge |-> challenge, response |-> response]
Clipboard(content, timestamp) ==
    [t |-> "Clipboard", content |-> content, timestamp |-> timestamp]
Ping == [t |-> "Ping"]
Pong == [t |-> "Pong"]

Texts == {"a"}
\* The texts the local user copies.
Copied == {"a", "b"}
Now == {1000}

\* What a foreign endpoint may write: any message, with any id, any challenge
\* and any response that can be computed from a key and a challenge.
ForeignFrames ==
    {Hello(id, "nf") : id \in RIds}
    \cup {Auth(ch, r) : ch \in Challenges \cup {0},
                        r \in {compute_auth_response(k, c) : k \in RKeys, c \in Challenges}
                              \cup {ZeroResponse}}
    \cup {Clipboard(x, ts) : x \in Texts, ts \in Now} \cup {Ping, Pong}

\* Every message that can be on a wire.
Frames ==
    ForeignFrames \cup {Hello(i, NameOf(i)) : i \in Inst}
    \cup {Clipboard(x, ts) : x \in Copied, ts \in Now}

\* Result<Message, ProtocolError> of PeerConnection::recv
Ok(m) == [ok |-> TRUE, msg |-> m]
Err(e) == [ok |-> FALSE, err |-> e]
RecvAny == {Ok(m) : m \in Frames} \cup {Err(e) : e \in {"Io", "InvalidLength", "InvalidFormat"}}

(***************************************************************************)
(* src/src/protocol.rs and PeerConnection::recv as pure functions.  A byte *)
(* string is a sequence: the four bytes of the length prefix are numbers,  *)
(* the bytes of the payload are the lines of the TOML text, a line being a *)
(* record [k, v]; k = "junk" is text that is no TOML and k = "bad" a byte  *)
(* that is no UTF-8.                                                       *)
(***************************************************************************)
Line(k, v) == [k |-> k, v |-> v]

\* toml::to_string(&Message): a TOML document is a table, so a struct variant
\* becomes the table of its name and a unit variant has no document.
toml_to_string(m) ==
    CASE m.t = "Hello" ->
            [ok |-> TRUE,
             text |-> <<Line("table", "Hello"), Line("id", m.id), Line("name", m.name)>>]
      [] m.t = "Auth" ->
            [ok |-> TRUE,
             text |-> <<Line("table", "Auth"), Line("challenge", m.challenge),
                        Line("response", m.response)>>]
      [] m.t = "Clipboard" ->
            [ok |-> TRUE,
             text |-> <<Line("table", "Clipboard"), Line("content", m.content),
                        Line("timestamp", m.timestamp)>>]
      [] OTHER -> [ok |-> FALSE, text |-> <<>>]

\* toml::from_str::<Message>: the table of a variant with its fields; a unit
\* variant is read from an empty table of its name.
toml_from_str(text) ==
    IF Len(text) = 0 \/ text[1].k # "table" THEN Err("InvalidFormat")
    ELSE CASE text[1].v = "Hello" /\ Len(text) = 3
                /\ text[2].k = "id" /\ text[3].k = "name" ->
                 Ok(Hello(text[2].v, text[3].v))
           [] text[1].v = "Auth" /\ Len(text) = 3
                /\ text[2].k = "challenge" /\ text[3].k = "response" ->
                 Ok(Auth(text[2].v, text[3].v))
           [] text[1].v = "Clipboard" /\ Len(text) = 3
                /\ text[2].k = "content" /\ text[3].k = "timestamp" ->
                 Ok(Clipboard(text[2].v, text[3].v))
           [] text[1].v = "Ping" /\ Len(text) = 1 -> Ok(Ping)
           [] text[1].v = "Pong" /\ Len(text) = 1 -> Ok(Pong)
           [] OTHER -> Err("InvalidFormat")

\* u32::to_be_bytes, u32::from_be_bytes
to_be_bytes(n) ==
    <<(n \div 16777216) % 256, (n \div 65536) % 256, (n \div 256) % 256, n % 256>>
from_be_bytes(b) == b[1] * 16777216 + b[2] * 65536 + b[3] * 256 + b[4]

\* std::str::from_utf8 succeeds
from_utf8_ok(bytes) == \A n \in 1..Len(bytes) : bytes[n].k # "bad"

\* Message::encode: the bytes, or the panic of expect()
encode(m) ==
    LET payload == toml_to_string(m)
    IN  IF payload.ok
        THEN [panic |-> FALSE, data |-> to_be_bytes(Len(payload.text)) \o payload.text]
        ELSE [panic |-> TRUE, data |-> <<>>]

\* Message::decode
decode(data) ==
    IF Len(data) < 4 THEN Err("InvalidLength")
    ELSE LET len == from_be_bytes(SubSeq(data, 1, 4))
         IN  IF Len(data) < 4 + len THEN Err("InvalidLength")
             ELSE LET payload == SubSeq(data, 5, 4 + len)
                  IN  IF ~from_utf8_ok(payload) THEN Err("InvalidLength")
                      ELSE toml_from_str(payload)

\* PeerConnection::recv on a stream that holds the given bytes and then ends:
\* the result and the size of the buffer it allocated.
recv(stream) ==
    IF Len(stream) < 4 THEN [res |-> Err("Io"), allocated |-> 0]
    ELSE LET len == from_be_bytes(SubSeq(stream, 1, 4))
         IN  IF Len(stream) < 4 + len
             THEN [res |-> Err("Io"), allocated |-> 4 + len]
             ELSE [res |-> decode(SubSeq(stream, 1, 4 + len)), allocated |-> 4 + len]

NewConn(d, a) ==
    [host |-> [d |-> d, a |-> a], open |-> [d |-> TRUE, a |-> TRUE],
     inbox |-> [d |-> <<>>, a |-> <<>>], accepted |-> a \notin Inst,
     log |-> <<>>]

\* PeerConnection { peer_id, peer_name } (0 is None), the result of its
\* handshake, its run task and the receiving end of its outbound channel.
\* No PeerEvent is waiting in events_tx.send.
NoEvent == [t |-> "None"]
NoEp == [hs |-> "none", unexpected |-> FALSE, peer_id |-> 0, peer_name |-> "",
         run |-> "none", outq |-> <<>>, held |-> NoEvent]

\* The poller between two ticks: it holds no lock.
PollIdle == [pc |-> "tick", todo |-> <<>>, item |-> <<>>]
\* The registry mutex of instance i is free: the poller is the only task that
\* keeps its guard over several steps.
RegistryFree(i) == rPoll[i].pc # "send"

\* The main loop in peer_events_rx.recv.
MainIdle == [pc |-> "recv", content |-> ""]
NoHist == [copied |-> <<>>, cast |-> <<>>]

AccIdle == [pc |-> "accept", conn |-> 0, their_id |-> 0, their_name |-> "", waited |-> 0]
DialIdle == [pc |-> "recv", conn |-> 0, peer |-> 0, addr |-> 0,
             their_id |-> 0, their_name |-> "", challenge |-> 0, waited |-> 0]

\* TrustStore::is_trusted
is_trusted(store, id) == \E p \in store : p.id = id

\* HashMap::insert without the contains_key check
TrustOverwrites(store, id, name, now) ==
    {p \in store : p.id # id} \cup {[id |-> id, name |-> name, first_seen |-> now]}

\* TrustStore::trust: no-op when the id is present.
trust(store, id, name, now) ==
    IF \E p \in store : p.id = id THEN store
    ELSE store \cup {[id |-> id, name |-> name, first_seen |-> now]}

\* HashMap<Uuid, ClipboardTx>: contains_key, insert, remove
contains_key(reg, id) == \E e \in reg : e.id = id
RInsert(reg, id, tx) == {e \in reg : e.id # id} \cup {[id |-> id, tx |-> tx]}
RRemoveNothing(reg, id) == reg
RRemove(reg, id) == {e \in reg : e.id # id}

RStart(psk) ==
    /\ rPsk = psk
    /\ rTrust = [i \in Inst |-> {}]
    /\ rTrustFile = [i \in Inst |-> {}]
    /\ rPeers = [i \in Inst |-> {}]
    /\ rEvents = [i \in Inst |-> <<>>]
    /\ rSeen = [i \in Inst |-> {}]
    /\ rDq = [i \in Inst |-> <<>>]
    /\ rAcc = [i \in Inst |-> AccIdle]
    /\ rDial = [i \in Inst |-> DialIdle]
    /\ rClip = [i \in Inst |-> ""]
    /\ rLast = [i \in Inst |-> ""]
    /\ rPoll = [i \in Inst |-> PollIdle]
    /\ rMain = [i \in Inst |-> MainIdle]
    /\ rHist = [i \in Inst |-> NoHist]
    /\ rConns = <<>>
    /\ rEp = <<>>

\* Every instance started with --psk s.
RInit == RStart([i \in Inst |-> "s"])

\* Instance 1 started with --psk s, instance 2 with --psk s or --psk t.
PairInit == \E k \in RKeys : RStart([i \in Inst |-> IF i = 1 THEN "s" ELSE k])

(***************************************************************************)
(* The stream of a connection, seen from side s of connection c.           *)
(***************************************************************************)
\* What PeerConnection::recv may return now.  Between two instances: the next
\* frame, or Io (UnexpectedEof) once the peer has dropped its stream and all
\* its frames are read.  From a foreign endpoint: any message, a body that is
\* not UTF-8 (InvalidLength) or not a message (InvalidFormat), and Io once it
\* has closed, before a length prefix or inside a frame.
\* A relay is an endpoint that does not run this program, holds the key
\* RelayKey and no other, and keeps every frame written to it.
Relays == {3}
RelayKey == "t"
RelayHeard ==
    UNION {{rConns[x[1]].inbox[x[2]][n] : n \in 1..Len(rConns[x[1]].inbox[x[2]])} :
              x \in {y \in (1..Len(rConns)) \X {"d", "a"} :
                        rConns[y[1]].host[y[2]] \in Relays}}
RelayHeardAuth == {m \in RelayHeard : m.t = "Auth"}

\* What a relay may write: a Hello with any id, and an Auth whose challenge is
\* its own (0) or one it was sent, and whose response is zero, computed with
\* its key, or one it was sent.
RelayFrames ==
    {Hello(id, "nf") : id \in RIds}
    \cup {Auth(ch, r) :
            ch \in {0} \cup {m.challenge : m \in RelayHeardAuth},
            r \in {ZeroResponse} \cup {m.response : m \in RelayHeardAuth}
                  \cup {compute_auth_response(RelayKey, c) : c \in Challenges}}

RecvResults(c, s) ==
    LET k == rConns[c]
    IN  IF k.host[Other(s)] \in Inst
        THEN IF k.inbox[s] # <<>> THEN {Ok(Head(k.inbox[s]))}
             ELSE IF ~k.open[Other(s)] THEN {Err("Io")} ELSE {}
        ELSE IF k.host[Other(s)] \in Relays
        THEN IF k.open[Other(s)] THEN {Ok(m) : m \in RelayFrames} ELSE {Err("Io")}
        ELSE IF k.open[Other(s)]
             THEN {Ok(m) : m \in ForeignFrames}
                  \cup {Err("InvalidLength"), Err("InvalidFormat")}
             ELSE {Err("Io")}

\* The stream after the frame recv returned is taken from it.
Consumed(k, s) ==
    IF k.inbox[s] # <<>> THEN [k EXCEPT !.inbox[s] = Tail(@)] ELSE k

\* write_all: succeeds while the peer holds its stream; after that it may
\* still succeed (the bytes are lost) or fail.
SendOutcomes(c, s) == IF rConns[c].open[Other(s)] THEN {TRUE} ELSE {TRUE, FALSE}

\* write_all of message m on side s: the peer's inbox gets it while the peer
\* holds its stream.  log is the transcript of the handshake frames written.
Delivered(k, s, m) ==
    LET w == IF m.t \in {"Hello", "Auth"}
             THEN [k EXCEPT !.log = Append(@, <<s, m.t>>)] ELSE k
    IN  IF k.host[Other(s)] \in Inst \cup Relays /\ k.open[Other(s)]
        THEN [w EXCEPT !.inbox[Other(s)] = Append(@, m)]
        ELSE w

\* The stream is dropped.
Dropped(k, s) == [k EXCEPT !.open[s] = FALSE, !.inbox[s] = <<>>]

(***************************************************************************)
(* Root daemon: discovery and the dial loop of instance i.                 *)
(***************************************************************************)
\* Discovery::browse, one ServiceResolved event announcing id at addr; the
\* event is skipped for our own id and for an id of seen.
SeenIgnored(own_id, seen, id) == id = own_id
skipped(own_id, seen, id) == id = own_id \/ id \in seen

ServiceResolved(i, id, addr) ==
    /\ IF skipped(i, rSeen[i], id)
       THEN UNCHANGED <<rSeen, rDq>>
       ELSE /\ rSeen' = [rSeen EXCEPT ![i] = @ \cup {id}]
            /\ rDq' = [rDq EXCEPT ![i] = Append(@, [id |-> id, addr |-> addr])]
    /\ UNCHANGED <<cmVars, fVars, rMain, rHist>>
    /\ UNCHANGED <<rPoll, rPsk, rTrust, rTrustFile, rPeers, rEvents, rAcc, rDial,
                   rClip, rLast, rConns, rEp>>

\* main, dial loop: discovered_rx.recv and the contains_key check.
DialRecvDiscovered(i) ==
    /\ rDial[i].pc = "recv"
    /\ rDq[i] # <<>>
    /\ RegistryFree(i)
    /\ rDq' = [rDq EXCEPT ![i] = Tail(@)]
    /\ rDial' = [rDial EXCEPT ![i] =
          IF contains_key(rPeers[i], Head(rDq[i]).id) THEN DialIdle
          ELSE [DialIdle EXCEPT !.pc = "connect", !.peer = Head(rDq[i]).id,
                                !.addr = Head(rDq[i]).addr]]
    /\ UNCHANGED <<cmVars, fVars, rMain, rHist>>
    /\ UNCHANGED <<rPoll, rPsk, rTrust, rTrustFile, rPeers, rEvents, rSeen, rAcc,
                   rClip, rLast, rConns, rEp>>

\* PeerConnection::connect, and the first send of handshake_outbound.
DialConnect(i, connected) ==
    /\ rDial[i].pc = "connect"
    /\ IF connected
       THEN /\ Len(rConns) < MaxConns
            /\ rConns' = Append(rConns,
                  Delivered(NewConn(i, rDial[i].addr), "d", Hello(i, NameOf(i))))
            /\ rEp' = Append(rEp, [d |-> NoEp, a |-> NoEp])
            /\ rDial' = [rDial EXCEPT ![i].pc = "hello", ![i].conn = Len(rConns) + 1]
       ELSE /\ rDial' = [rDial EXCEPT ![i] = DialIdle]
            /\ UNCHANGED <<rConns, rEp>>
    /\ UNCHANGED <<cmVars, fVars, rMain, rHist>>
    /\ UNCHANGED <<rPoll, rPsk, rTrust, rTrustFile, rPeers, rEvents, rSeen, rDq, rAcc,
                   rClip, rLast>>

HsErrorVariantAsIo(r, t, sent, verified) ==
    IF ~r.ok THEN r.err
    ELSE IF r.msg.t # t THEN "Io"
    ELSE IF ~verified THEN "AuthFailed"
    ELSE IF ~sent THEN "Io"
    ELSE "Ok"

\* The result of a handshake step that expects a message of variant t.
HsError(r, t, sent, verified) ==
    IF ~r.ok THEN r.err
    ELSE IF r.msg.t # t THEN "AuthFailed"
    ELSE IF ~verified THEN "AuthFailed"
    ELSE IF ~sent THEN "Io"
    ELSE "Ok"

HsUnexpected(r, t) == r.ok /\ r.msg.t # t

\* A handshake returned Err: the caller logs and drops the connection.
HsFailedEp(ep, err, unexpected) == [ep EXCEPT !.hs = err, !.unexpected = unexpected]

\* A handshake returned Ok: peer_id and peer_name are set.
HsOkEp(ep, id, name) == [ep EXCEPT !.hs = "Ok", !.peer_id = id, !.peer_name = name]

\* handshake_outbound: recv the Hello, generate the challenge, send the Auth.
DialHello(i, r, challenge, sent) ==
    LET c == rDial[i].conn
        k == Consumed(rConns[c], "d")
        res == HsError(r, "Hello", sent, TRUE)
    IN  /\ rDial[i].pc = "hello"
        /\ r \in RecvResults(c, "d")
        /\ sent \in SendOutcomes(c, "d")
        /\ IF res = "Ok"
           THEN /\ rConns' = [rConns EXCEPT ![c] =
                                 Delivered(k, "d", Auth(challenge, ZeroResponse))]
                /\ rDial' = [rDial EXCEPT ![i].pc = "auth", ![i].their_id = r.msg.id,
                                          ![i].their_name = r.msg.name,
                                          ![i].challenge = challenge]
                /\ UNCHANGED rEp
           ELSE /\ rConns' = [rConns EXCEPT ![c] = Dropped(k, "d")]
                /\ rDial' = [rDial EXCEPT ![i] = DialIdle]
                /\ rEp' = [rEp EXCEPT ![c].d =
                              HsFailedEp(@, res, HsUnexpected(r, "Hello"))]
        /\ UNCHANGED <<cmVars, fVars, rMain, rHist>>
        /\ UNCHANGED <<rPoll, rPsk, rTrust, rTrustFile, rPeers, rEvents, rSeen, rDq, rAcc,
                       rClip, rLast>>

\* handshake_outbound: recv the Auth and verify its response.
DialAuth(i, r) ==
    LET c == rDial[i].conn
        k == Consumed(rConns[c], "d")
        verified == r.ok /\ r.msg.t = "Auth"
                    /\ verify_auth_response(rPsk[i], rDial[i].challenge, r.msg.response)
        res == HsError(r, "Auth", TRUE, verified)
    IN  /\ rDial[i].pc = "auth"
        /\ r \in RecvResults(c, "d")
        /\ IF res = "Ok"
           THEN /\ rConns' = [rConns EXCEPT ![c] = k]
                /\ rDial' = [rDial EXCEPT ![i].pc = "trust"]
                /\ rEp' = [rEp EXCEPT ![c].d =
                              HsOkEp(@, rDial[i].their_id, rDial[i].their_name)]
           ELSE /\ rConns' = [rConns EXCEPT ![c] = Dropped(k, "d")]
                /\ rDial' = [rDial EXCEPT ![i] = DialIdle]
                /\ rEp' = [rEp EXCEPT ![c].d =
                              HsFailedEp(@, res, HsUnexpected(r, "Auth"))]
        /\ UNCHANGED <<cmVars, fVars, rMain, rHist>>
        /\ UNCHANGED <<rPoll, rPsk, rTrust, rTrustFile, rPeers, rEvents, rSeen, rDq, rAcc,
                       rClip, rLast>>

\* The trust block of both loops, under the trust-store lock: is_trusted,
\* trust, save (its error is dropped).
TrustLockIgnored(i) == TRUE

\* The mutex of the trust store of instance i is free: a loop keeps its guard
\* from trust_clone.lock() to drop(trust).
TrustFree(i) == rDial[i].pc # "save" /\ rAcc[i].pc # "save"

\* trust.trust(peer_id, peer_name) and let _ = trust.save(), made with the
\* guard held.
TrustBlock(i, id, name, saved) ==
    /\ \E now \in Now :
          rTrust' = [rTrust EXCEPT ![i] = trust(@, id, name, now)]
    /\ rTrustFile' = [rTrustFile EXCEPT ![i] = IF saved THEN rTrust'[i] ELSE @]

\* The registry insert and the spawn of run, in both loops.
InsertAndSpawn(i, c, s) ==
    /\ rPeers' = [rPeers EXCEPT ![i] = RInsert(@, rEp[c][s].peer_id, <<c, s>>)]
    /\ rEp' = [rEp EXCEPT ![c][s].run = "start"]

\* Dial loop: trust_clone.lock() and the is_trusted check; the guard is
\* dropped at once for a trusted peer.
DialTrust(i) ==
    /\ rDial[i].pc = "trust"
    /\ TrustFree(i)
    /\ rDial' = [rDial EXCEPT ![i].pc =
          IF is_trusted(rTrust[i], rDial[i].their_id) THEN "insert" ELSE "save"]
    /\ UNCHANGED <<cmVars, fVars, rMain, rHist>>
    /\ UNCHANGED <<rPoll, rPsk, rTrust, rTrustFile, rPeers, rEvents, rSeen, rDq, rAcc,
                   rClip, rLast, rConns, rEp>>

\* Dial loop: trust, save and drop(trust).
DialTrustSave(i, saved) ==
    /\ rDial[i].pc = "save"
    /\ TrustBlock(i, rDial[i].their_id, rDial[i].their_name, saved)
    /\ rDial' = [rDial EXCEPT ![i].pc = "insert"]
    /\ UNCHANGED <<cmVars, fVars, rMain, rHist>>
    /\ UNCHANGED <<rPoll, rPsk, rPeers, rEvents, rSeen, rDq, rAcc, rClip, rLast, rConns, rEp>>

DialInsert(i) ==
    /\ rDial[i].pc = "insert"
    /\ RegistryFree(i)
    /\ InsertAndSpawn(i, rDial[i].conn, "d")
    /\ rDial' = [rDial EXCEPT ![i] = DialIdle]
    /\ UNCHANGED <<cmVars, fVars, rMain, rHist>>
    /\ UNCHANGED <<rPoll, rPsk, rTrust, rTrustFile, rEvents, rSeen, rDq, rAcc, rClip, rLast,
                   rConns>>

(***************************************************************************)
(* Root daemon: the accept loop of instance i.                             *)
(***************************************************************************)
Pending(i) == {c \in 1..Len(rConns) : rConns[c].host.a = i /\ ~rConns[c].accepted}

\* main, accept loop: listener.accept returns the oldest pending connection.
AcceptConn(i) ==
    /\ rAcc[i].pc = "accept"
    /\ Pending(i) # {}
    /\ LET c == CHOOSE x \in Pending(i) : \A y \in Pending(i) : x <= y
       IN  /\ rConns' = [rConns EXCEPT ![c].accepted = TRUE]
           /\ rAcc' = [rAcc EXCEPT ![i].pc = "hello", ![i].conn = c]
    /\ UNCHANGED <<cmVars, fVars, rMain, rHist>>
    /\ UNCHANGED <<rPoll, rPsk, rTrust, rTrustFile, rPeers, rEvents, rSeen, rDq, rDial,
                   rClip, rLast, rEp>>

\* handshake_inbound: recv the Hello, send ours.
AcceptHello(i, r, sent) ==
    LET c == rAcc[i].conn
        k == Consumed(rConns[c], "a")
        res == HsError(r, "Hello", sent, TRUE)
    IN  /\ rAcc[i].pc = "hello"
        /\ r \in RecvResults(c, "a")
        /\ sent \in SendOutcomes(c, "a")
        /\ IF res = "Ok"
           THEN /\ rConns' = [rConns EXCEPT ![c] = Delivered(k, "a", Hello(i, NameOf(i)))]
                /\ rAcc' = [rAcc EXCEPT ![i].pc = "auth", ![i].their_id = r.msg.id,
                                        ![i].their_name = r.msg.name]
                /\ UNCHANGED rEp
           ELSE /\ rConns' = [rConns EXCEPT ![c] = Dropped(k, "a")]
                /\ rAcc' = [rAcc EXCEPT ![i] = AccIdle]
                /\ rEp' = [rEp EXCEPT ![c].a =
                              HsFailedEp(@, res, HsUnexpected(r, "Hello"))]
        /\ UNCHANGED <<cmVars, fVars, rMain, rHist>>
        /\ UNCHANGED <<rPoll, rPsk, rTrust, rTrustFile, rPeers, rEvents, rSeen, rDq, rDial,
                       rClip, rLast>>

\* handshake_inbound: recv the Auth, compute the response, send it.
AcceptAuth(i, r, sent) ==
    LET c == rAcc[i].conn
        k == Consumed(rConns[c], "a")
        res == HsError(r, "Auth", sent, TRUE)
    IN  /\ rAcc[i].pc = "auth"
        /\ r \in RecvResults(c, "a")
        /\ sent \in SendOutcomes(c, "a")
        /\ IF res = "Ok"
           THEN /\ rConns' = [rConns EXCEPT ![c] = Delivered(k, "a",
                      Auth(0, compute_auth_response(rPsk[i], r.msg.challenge)))]
                /\ rAcc' = [rAcc EXCEPT ![i].pc = "trust"]
                /\ rEp' = [rEp EXCEPT ![c].a =
                              HsOkEp(@, rAcc[i].their_id, rAcc[i].their_name)]
           ELSE /\ rConns' = [rConns EXCEPT ![c] = Dropped(k, "a")]
                /\ rAcc' = [rAcc EXCEPT ![i] = AccIdle]
                /\ rEp' = [rEp EXCEPT ![c].a =
                              HsFailedEp(@, res, HsUnexpected(r, "Auth"))]
        /\ UNCHANGED <<cmVars, fVars, rMain, rHist>>
        /\ UNCHANGED <<rPoll, rPsk, rTrust, rTrustFile, rPeers, rEvents, rSeen, rDq, rDial,
                       rClip, rLast>>

\* Accept loop: trust_clone.lock() and the is_trusted check.
AcceptTrust(i) ==
    /\ rAcc[i].pc = "trust"
    /\ TrustFree(i)
    /\ rAcc' = [rAcc EXCEPT ![i].pc =
          IF is_trusted(rTrust[i], rAcc[i].their_id) THEN "insert" ELSE "save"]
    /\ UNCHANGED <<cmVars, fVars, rMain, rHist>>
    /\ UNCHANGED <<rPoll, rPsk, rTrust, rTrustFile, rPeers, rEvents, rSeen, rDq, rDial,
                   rClip, rLast, rConns, rEp>>

\* Accept loop: trust, save and drop(trust).
AcceptTrustSave(i, saved) ==
    /\ rAcc[i].pc = "save"
    /\ TrustBlock(i, rAcc[i].their_id, rAcc[i].their_name, saved)
    /\ rAcc' = [rAcc EXCEPT ![i].pc = "insert"]
    /\ UNCHANGED <<cmVars, fVars, rMain, rHist>>
    /\ UNCHANGED <<rPoll, rPsk, rPeers, rEvents, rSeen, rDq, rDial, rClip, rLast, rConns, rEp>>

AcceptInsertSpawn(i) ==
    /\ rAcc[i].pc = "insert"
    /\ RegistryFree(i)
    /\ InsertAndSpawn(i, rAcc[i].conn, "a")
    /\ rAcc' = [rAcc EXCEPT ![i] = AccIdle]
    /\ UNCHANGED <<cmVars, fVars, rMain, rHist>>
    /\ UNCHANGED <<rPoll, rPsk, rTrust, rTrustFile, rEvents, rSeen, rDq, rDial, rClip, rLast,
                   rConns>>

(***************************************************************************)
(* Root daemon: the task running PeerConnection::run on side s of          *)
(* connection c, the poller and the main event loop.                       *)
(***************************************************************************)
\* enum PeerEvent; src is the connection the sending task owns.
Connected(id, name, src) == [t |-> "Connected", id |-> id, name |-> name, src |-> src]
ClipboardEv(content, timestamp, src) ==
    [t |-> "Clipboard", content |-> content, timestamp |-> timestamp, src |-> src]
Disconnected(id, src) == [t |-> "Disconnected", id |-> id, src |-> src]

ConnIds == 1..Len(rConns)
Sides == {"d", "a"}
HostOf(c, s) == rConns[c].host[s]

\* events_tx.send(e).await on the channel of instance i
EventSentInFront(i, e) ==
    /\ Len(rEvents[i]) < MaxEvents
    /\ rEvents' = [rEvents EXCEPT ![i] = <<e>> \o @]

EventSent(i, e) ==
    /\ Len(rEvents[i]) < MaxEvents
    /\ rEvents' = [rEvents EXCEPT ![i] = Append(@, e)]

\* run: peer_id is Some, the Connected event is sent.
RunStart(c, s) ==
    /\ c \in ConnIds
    /\ rEp[c][s].run = "start"
    /\ EventSent(HostOf(c, s), Connected(rEp[c][s].peer_id, rEp[c][s].peer_name, <<c, s>>))
    /\ rEp' = [rEp EXCEPT ![c][s].run = "loop"]
    /\ UNCHANGED <<cmVars, fVars, rMain, rHist>>
    /\ UNCHANGED <<rPoll, rPsk, rTrust, rTrustFile, rPeers, rSeen, rDq, rAcc, rDial,
                   rClip, rLast, rConns>>

RunIgnoresRecvError(r) == "loop"

\* run, the match on the result of recv: Err breaks out of the loop.
RunAfterRecv(r) == IF r.ok THEN "loop" ELSE "exit"

\* run, select! branch self.recv().  A Ping is answered with
\* self.send(&Message::Pong): Pong has no encoding, encode panics and the
\* task unwinds, dropping the connection and the receiving end of its channel
\* without a Disconnected event.
RunRecv(c, s, r, sent) ==
    LET k == Consumed(rConns[c], s)
    IN  /\ c \in ConnIds
        /\ rEp[c][s].run = "loop"
        /\ r \in RecvResults(c, s)
        /\ sent \in SendOutcomes(c, s)
        /\ sent
        /\ IF ~r.ok
           THEN /\ rEp' = [rEp EXCEPT ![c][s].run = RunAfterRecv(r)]
                /\ rConns' = [rConns EXCEPT ![c] = k]
                /\ UNCHANGED rEvents
           ELSE IF r.msg.t = "Ping" /\ encode(Pong).panic
           THEN /\ rEp' = [rEp EXCEPT ![c][s].run = "panicked", ![c][s].outq = <<>>]
                /\ rConns' = [rConns EXCEPT ![c] = Dropped(k, s)]
                /\ UNCHANGED rEvents
           ELSE IF r.msg.t = "Clipboard" /\ Len(rEvents[HostOf(c, s)]) >= MaxEvents
           THEN /\ rEp' = [rEp EXCEPT ![c][s].run = "emit",
                                      ![c][s].held = ClipboardEv(r.msg.content,
                                                        r.msg.timestamp, <<c, s>>)]
                /\ rConns' = [rConns EXCEPT ![c] = k]
                /\ UNCHANGED rEvents
           ELSE /\ UNCHANGED rEp
                /\ IF r.msg.t = "Clipboard"
                   THEN /\ EventSent(HostOf(c, s),
                               ClipboardEv(r.msg.content, r.msg.timestamp, <<c, s>>))
                        /\ rConns' = [rConns EXCEPT ![c] = k]
                   ELSE /\ UNCHANGED rEvents
                        /\ rConns' = [rConns EXCEPT ![c] =
                              IF r.msg.t = "Ping" THEN Delivered(k, s, Pong) ELSE k]
        /\ UNCHANGED <<cmVars, fVars, rMain, rHist>>
        /\ UNCHANGED <<rPoll, rPsk, rTrust, rTrustFile, rPeers, rSeen, rDq, rAcc, rDial,
                       rClip, rLast>>

\* run, the Clipboard arm: events_tx.send, which waited for room on the event
\* channel, completes and the task is back at select!.
RunEmit(c, s) ==
    /\ c \in ConnIds
    /\ rEp[c][s].run = "emit"
    /\ EventSent(HostOf(c, s), rEp[c][s].held)
    /\ rEp' = [rEp EXCEPT ![c][s].run = "loop", ![c][s].held = NoEvent]
    /\ UNCHANGED <<cmVars, fVars, rMain, rHist>>
    /\ UNCHANGED <<rPoll, rPsk, rTrust, rTrustFile, rPeers, rSeen, rDq, rAcc, rDial,
                   rClip, rLast, rConns>>

\* run, select! branch clipboard_rx.recv(): the edit is sent as a Clipboard.
RunSendEdit(c, s, sent) ==
    /\ c \in ConnIds
    /\ rEp[c][s].run = "loop"
    /\ rEp[c][s].outq # <<>>
    /\ sent \in SendOutcomes(c, s)
    /\ LET e == Head(rEp[c][s].outq)
       IN  rConns' = [rConns EXCEPT ![c] =
               IF sent THEN Delivered(@, s, Clipboard(e[1], e[2])) ELSE @]
    /\ rEp' = [rEp EXCEPT ![c][s].outq = Tail(@),
                          ![c][s].run = IF sent THEN "loop" ELSE "exit"]
    /\ UNCHANGED <<cmVars, fVars, rMain, rHist>>
    /\ UNCHANGED <<rPoll, rPsk, rTrust, rTrustFile, rPeers, rEvents, rSeen, rDq, rAcc, rDial,
                   rClip, rLast>>

\* run, after the loop: Disconnected is sent, the task ends and drops the
\* connection and the receiving end of its channel.
RunExit(c, s) ==
    /\ c \in ConnIds
    /\ rEp[c][s].run = "exit"
    /\ EventSent(HostOf(c, s), Disconnected(rEp[c][s].peer_id, <<c, s>>))
    /\ rEp' = [rEp EXCEPT ![c][s].run = "done", ![c][s].outq = <<>>]
    /\ rConns' = [rConns EXCEPT ![c] = Dropped(@, s)]
    /\ UNCHANGED <<cmVars, fVars, rMain, rHist>>
    /\ UNCHANGED <<rPoll, rPsk, rTrust, rTrustFile, rPeers, rSeen, rDq, rAcc, rDial,
                   rClip, rLast>>

\* The receiving end of the channel behind tx is alive.
TxOpen(tx) == rEp[tx[1]][tx[2]].run \notin {"done", "panicked"}

IterEachTwice(reg) ==
    LET txs == {e.tx : e \in reg}
    IN  {q \o q : q \in {p \in [1..Cardinality(txs) -> txs] :
                               \A a, b \in DOMAIN p : p[a] = p[b] => a = b}}

\* The orders in which peers.iter() can yield the senders of a registry.
IterOrders(reg) ==
    LET txs == {e.tx : e \in reg}
    IN  {q \in [1..Cardinality(txs) -> txs] : \A a, b \in DOMAIN q : q[a] = q[b] => a = b}

\* main, the poller: interval.tick, get_text, the comparison with
\* last_content and, for a new text, peers_clone.lock().
PollTick(i, timestamp) ==
    LET content == rClip[i]
    IN  /\ rPoll[i].pc = "tick"
        /\ content # rLast[i] /\ content # ""
        /\ rLast' = [rLast EXCEPT ![i] = content]
        /\ \E order \in IterOrders(rPeers[i]) :
              rPoll' = [rPoll EXCEPT ![i] =
                 IF order = <<>> THEN PollIdle
                 ELSE [pc |-> "send", todo |-> order, item |-> <<content, timestamp>>]]
        /\ UNCHANGED <<cmVars, fVars, rMain, rHist>>
        /\ UNCHANGED <<rPsk, rTrust, rTrustFile, rPeers, rEvents, rSeen, rDq, rAcc,
                       rDial, rClip, rConns, rEp>>

\* tx.send((content, timestamp)).await of a bounded channel: Err when the
\* receiving end is gone, the item is queued when there is room, and the
\* call waits while the queue is full.
SendReady(tx) == ~TxOpen(tx) \/ Len(rEp[tx[1]][tx[2]].outq) < MaxOut

\* main, the poller: one tx.send of the for loop, made with the guard of the
\* registry held; after the last one the guard is dropped.
PollSend(i) ==
    /\ rPoll[i].pc = "send"
    /\ LET tx == Head(rPoll[i].todo)
       IN  /\ SendReady(tx)
           /\ rEp' = IF TxOpen(tx)
                     THEN [rEp EXCEPT ![tx[1]][tx[2]].outq = Append(@, rPoll[i].item)]
                     ELSE rEp
    /\ rPoll' = [rPoll EXCEPT ![i] =
          IF Len(@.todo) = 1 THEN PollIdle ELSE [@ EXCEPT !.todo = Tail(@)]]
    /\ UNCHANGED <<cmVars, fVars, rMain, rHist>>
    /\ UNCHANGED <<rPsk, rTrust, rTrustFile, rPeers, rEvents, rSeen, rDq, rAcc,
                   rDial, rClip, rLast, rConns>>

\* main, the poller task.
Poll(i) ==
    \/ \E timestamp \in Now : PollTick(i, timestamp)
    \/ PollSend(i)

\* The user copies a text on the machine of instance i.
LocalCopy(i, text) ==
    /\ rClip[i] # text
    /\ rClip' = [rClip EXCEPT ![i] = text]
    /\ UNCHANGED <<cmVars, fVars, rMain, rHist>>
    /\ UNCHANGED <<rPoll, rPsk, rTrust, rTrustFile, rPeers, rEvents, rSeen, rDq, rAcc,
                   rDial, rLast, rConns, rEp>>

\* main, the event loop: one event.
MainEvent(i, setOk) ==
    /\ rMain[i].pc = "recv"
    /\ rEvents[i] # <<>>
    /\ LET e == Head(rEvents[i])
       IN  /\ (e.t # "Clipboard") => setOk
           /\ (e.t = "Disconnected") => RegistryFree(i)
           /\ rEvents' = [rEvents EXCEPT ![i] = Tail(@)]
           /\ rLast' = [rLast EXCEPT ![i] = IF e.t = "Clipboard" THEN e.content ELSE @]
           /\ rClip' = [rClip EXCEPT ![i] =
                           IF e.t = "Clipboard" /\ setOk THEN e.content ELSE @]
           /\ rPeers' = [rPeers EXCEPT ![i] =
                           IF e.t = "Disconnected" THEN RRemove(@, e.id) ELSE @]
    /\ UNCHANGED <<cmVars, fVars, rMain, rHist>>
    /\ UNCHANGED <<rPoll, rPsk, rTrust, rTrustFile, rSeen, rDq, rAcc, rDial, rConns, rEp>>

(***************************************************************************)
(* Time.  recv reads with read_exact and no timer, and neither handshake   *)
(* is wrapped in one: no step of the program reads the clock.  waited      *)
(* counts the ticks since a loop entered its handshake.                    *)
(***************************************************************************)
InHandshake(loop) == loop.pc \in {"hello", "auth"}

Ticked(loop) ==
    IF InHandshake(loop) /\ loop.waited <= HandshakeBudget
    THEN [loop EXCEPT !.waited = @ + 1] ELSE loop

Tick ==
    /\ \E i \in Inst : \/ Ticked(rAcc[i]) # rAcc[i]
                       \/ Ticked(rDial[i]) # rDial[i]
    /\ rAcc' = [i \in Inst |-> Ticked(rAcc[i])]
    /\ rDial' = [i \in Inst |-> Ticked(rDial[i])]
    /\ UNCHANGED <<cmVars, fVars, rMain, rHist>>
    /\ UNCHANGED <<rPoll, rPsk, rTrust, rTrustFile, rPeers, rEvents, rSeen, rDq, rClip, rLast,
                   rConns, rEp>>

(***************************************************************************)
(* Endpoints that do not run this program.                                 *)
(***************************************************************************)
\* A foreign endpoint connects to the listener of instance i.
ForeignConnect(i) ==
    /\ Len(rConns) < MaxConns
    /\ \E f \in {0} : rConns' = Append(rConns, NewConn(f, i))
    /\ rEp' = Append(rEp, [d |-> NoEp, a |-> NoEp])
    /\ UNCHANGED <<cmVars, fVars, rMain, rHist>>
    /\ UNCHANGED <<rPoll, rPsk, rTrust, rTrustFile, rPeers, rEvents, rSeen, rDq, rAcc,
                   rDial, rClip, rLast>>

\* A foreign endpoint closes its end of connection c.
ForeignClose(c, s) ==
    /\ c \in ConnIds
    /\ rConns[c].host[s] \notin Inst
    /\ rConns[c].open[s]
    /\ rConns[c].open[Other(s)]
    /\ rConns' = [rConns EXCEPT ![c].open[s] = FALSE]
    /\ UNCHANGED <<cmVars, fVars, rMain, rHist>>
    /\ UNCHANGED <<rPoll, rPsk, rTrust, rTrustFile, rPeers, rEvents, rSeen, rDq, rAcc,
                   rDial, rClip, rLast, rEp>>

\* The dial loop, the accept loop and the task of side s of connection c.
DialLoop(i) ==
    \/ DialRecvDiscovered(i)
    \/ \E connected \in BOOLEAN : DialConnect(i, connected)
    \/ \E r \in RecvAny, ch \in Challenges, sent \in BOOLEAN : DialHello(i, r, ch, sent)
    \/ \E r \in RecvAny : DialAuth(i, r)
    \/ DialTrust(i)
    \/ \E saved \in BOOLEAN : DialTrustSave(i, saved)
    \/ DialInsert(i)

AcceptLoop(i) ==
    \/ AcceptConn(i)
    \/ \E r \in RecvAny, sent \in BOOLEAN : AcceptHello(i, r, sent)
    \/ \E r \in RecvAny, sent \in BOOLEAN : AcceptAuth(i, r, sent)
    \/ AcceptTrust(i)
    \/ \E saved \in BOOLEAN : AcceptTrustSave(i, saved)
    \/ AcceptInsertSpawn(i)

RunTask(c, s) ==
    \/ RunStart(c, s)
    \/ \E r \in RecvAny, sent \in BOOLEAN : RunRecv(c, s, r, sent)
    \/ RunExit(c, s)

\* The largest payload the junk frames declare.
MaxDeclared == 4

\* Byte strings a peer may write before it closes the stream.
JunkBody(n, k) == [x \in 1..n |-> Line(k, 0)]
Streams ==
    {encode(m).data : m \in {Hello(1, "n1"), Clipboard("a", 1000)}}
    \cup {to_be_bytes(l) \o JunkBody(n, k) :
            l \in 0..MaxDeclared, n \in 0..MaxDeclared, k \in {"junk", "bad"}}
    \cup {<<>>, <<0, 0>>, <<Line("table", "Ping")>>}
    \cup {to_be_bytes(1) \o <<Line("table", v)>> : v \in {"Ping", "Pong", "Hello"}}

\* The calls.
AuthCalls ==
    {[f |-> "auth", psk |-> k, other |-> k2, challenge |-> c] :
        k \in RKeys, k2 \in RKeys, c \in Challenges}
RoundTripCalls == {[f |-> "roundtrip", m |-> m] : m \in Frames}
RecvCalls == {[f |-> "recv", stream |-> b] : b \in Streams}
\* Stores as TrustStore::load may return them, and the clock of the call.
TrustStores ==
    {{}, {[id |-> 1, name |-> "n1", first_seen |-> 1000]},
     {[id |-> 1, name |-> "n1", first_seen |-> 1000],
      [id |-> 2, name |-> "n2", first_seen |-> 2000]}}
TrustCalls ==
    {[f |-> "trust", store |-> st, id |-> id, name |-> name, now |-> now] :
        st \in TrustStores, id \in RIds, name \in {"n1", "nf"}, now \in {1000, 2000}}
NoCall == [f |-> "none"]
NotReturned == [done |-> FALSE]
Returned(v) == [done |-> TRUE, val |-> v]

\* No task is followed byte by byte.
SelIdle == [run |-> "none", sent |-> <<>>, wire |-> <<>>, got |-> <<>>, edits |-> 0,
            queued |-> 0, out |-> <<>>, lost |-> 0, len |-> 0, pos |-> 0]

\* No NetworkManager and no ClipboardManager is started.
NmIdle == [peers |-> <<>>, table |-> {}, listener |-> [pc |-> "none", addr |-> 0],
           dial |-> <<>>, incoming |-> <<>>]
CbIdle == [on |-> FALSE, clip |-> "", last |-> "", updates |-> <<>>, events |-> <<>>,
           conns |-> {}, wire |-> <<>>]
HIdle == sel = SelIdle /\ nm = NmIdle /\ cb = CbIdle

FIdle == fnArgs = NoCall /\ fnRet = NotReturned /\ HIdle

\* verify_auth_response(psk, challenge, compute_auth_response(other, challenge))
ApplyAuth ==
    /\ fnArgs.f = "auth" /\ ~fnRet.done
    /\ fnRet' = Returned(verify_auth_response(fnArgs.psk, fnArgs.challenge,
                            compute_auth_response(fnArgs.other, fnArgs.challenge)))
    /\ UNCHANGED <<fnArgs, sel, nm, cb, cmVars, rVars>>

\* Message::decode(&msg.encode())
ApplyRoundTrip ==
    /\ fnArgs.f = "roundtrip" /\ ~fnRet.done
    /\ LET encoded == encode(fnArgs.m)
       IN  fnRet' = IF encoded.panic THEN Returned([panic |-> TRUE])
                    ELSE Returned([panic |-> FALSE, res |-> decode(encoded.data)])
    /\ UNCHANGED <<fnArgs, sel, nm, cb, cmVars, rVars>>

\* conn.recv()
ApplyRecv ==
    /\ fnArgs.f = "recv" /\ ~fnRet.done
    /\ fnRet' = Returned(recv(fnArgs.stream))
    /\ UNCHANGED <<fnArgs, sel, nm, cb, cmVars, rVars>>

(***************************************************************************)
(* Specifications.                                                         *)
(***************************************************************************)
Hosts == Inst \cup {0}

\* The ConnectionManager not started.
CMIdle ==
    /\ cmPeers = {}
    /\ cmAllowed = {}
    /\ cmFile = {}
    /\ cmPairMode = FALSE
    /\ cmPairing = NoPairing
    /\ cmPsk = "none"
    /\ cmTasks = <<>>
    /\ cmInbound = <<>>

\* The ConnectionManager of the shared crate.
InitCM == CMInit /\ RInit /\ FIdle

SpecCM == InitCM /\ [][CMNext]_vars

\* trust_store.trust(id, name)
ApplyTrust ==
    /\ fnArgs.f = "trust" /\ ~fnRet.done
    /\ fnRet' = Returned(trust(fnArgs.store, fnArgs.id, fnArgs.name, fnArgs.now))
    /\ UNCHANGED <<fnArgs, sel, nm, cb, cmVars, rVars>>

\* The pure functions, each applied to one input.
InitFn ==
    /\ RInit /\ CMIdle
    /\ fnArgs \in AuthCalls \cup RoundTripCalls \cup RecvCalls \cup TrustCalls
    /\ fnRet = NotReturned
    /\ HIdle

NextFn == ApplyAuth \/ ApplyRoundTrip \/ ApplyRecv \/ ApplyTrust

SpecFn == InitFn /\ [][NextFn]_vars

\* The ConnectionManager with one peer, no PSK, an empty allowlist and no
\* pairing: enough tasks for a dial, an accept and a second dial.
MaxDedupTasks == 3
DedupPeer == 1

InitDedup ==
    /\ CMIdle /\ RInit /\ FIdle

NextDedup ==
    \/ HandleDiscoveredPeerUpTo(MaxDedupTasks, DedupPeer, SelfGroup, "none")
    \/ AcceptUpTo(MaxDedupTasks)
    \/ \E t \in 1..MaxDedupTasks :
          \/ DialIoError(t)
          \/ DialRecvHello(t, DedupPeer, "none")
          \/ DialAllow(t, TRUE)
          \/ DialMarkConnected(t)
          \/ DialErrCleanup(t)
          \/ AcceptIoError(t)
          \/ AcceptRecvHello(t, DedupPeer, "none")
          \/ AcceptAllow(t, TRUE)
          \/ AcceptInsert(t)
          \/ \E ev \in SteadyEvents : HandleConnection(t, ev)
          \/ ClosedCleanup(t)
    \/ NextClipboardUpdate

SpecDedup == InitDedup /\ [][NextDedup]_vars

\* Discovery and the pairing task alone; the spawned pairing task is scheduled
\* by the runtime and the clock advances.
NextWindow ==
    \/ \E id \in CMIds, g \in Groups, mid \in {"none", "set", "expire"} :
          HandleDiscoveredPeer(id, g, mid)
    \/ \E n \in PairSeconds : EnablePairing(n)
    \/ PairingSet
    \/ PairingTick
    \/ PairingExpire

SpecWindow == InitCM /\ [][NextWindow]_vars

FairWindow ==
    SpecWindow /\ WF_vars(PairingSet) /\ WF_vars(PairingTick) /\ WF_vars(PairingExpire)

InitLocal == RInit /\ CMIdle /\ FIdle

\* One root daemon, instance 1, among endpoints that do not run this program;
\* the user of instance 1 copies nothing.
NextLocal ==
    \/ \E id \in RIds, addr \in Hosts \ Inst : ServiceResolved(1, id, addr)
    \/ DialLoop(1)
    \/ AcceptLoop(1)
    \/ \E setOk \in BOOLEAN : MainEvent(1, setOk)
    \/ \E c \in 1..MaxConns, s \in Sides : RunTask(c, s)
    \/ ForeignConnect(1)
    \/ \E c \in 1..MaxConns, s \in Sides : ForeignClose(c, s)
    \/ \E c \in 1..MaxConns, s \in Sides : RunEmit(c, s)

SpecLocal == InitLocal /\ [][NextLocal]_vars

\* One root daemon, instance 1, whose user copies texts, and the endpoints
\* that connect to it.
NextClip ==
    \/ AcceptLoop(1)
    \/ \E setOk \in BOOLEAN : MainEvent(1, setOk)
    \/ \E c \in 1..MaxConns, s \in Sides : RunTask(c, s)
    \/ \E c \in 1..MaxConns, s \in Sides, sent \in BOOLEAN : RunSendEdit(c, s, sent)
    \/ Poll(1)
    \/ \E text \in Copied : LocalCopy(1, text)
    \/ ForeignConnect(1)
    \/ \E c \in 1..MaxConns, s \in Sides : ForeignClose(c, s)
    \/ \E c \in 1..MaxConns, s \in Sides : RunEmit(c, s)

SpecClip == InitLocal /\ [][NextClip]_vars

\* The same daemon with endpoints that stay connected.
NextFan ==
    \/ AcceptLoop(1)
    \/ \E setOk \in BOOLEAN : MainEvent(1, setOk)
    \/ \E c \in 1..MaxConns, s \in Sides : RunTask(c, s)
    \/ \E c \in 1..MaxConns, s \in Sides, sent \in BOOLEAN : RunSendEdit(c, s, sent)
    \/ Poll(1)
    \/ \E text \in Copied : LocalCopy(1, text)
    \/ ForeignConnect(1)
    \/ \E c \in 1..MaxConns, s \in Sides : RunEmit(c, s)

SpecFan == InitLocal /\ [][NextFan]_vars

\* The user of instance i copies a text that was not copied before: "a" only
\* onto the empty clipboard, "b" at any time.
CopyNew(i, text) ==
    /\ text = "a" => rClip[i] = ""
    /\ LocalCopy(i, text)

\* Daemon 2 discovers and dials daemon 1, whose user copies texts; the
\* clipboard provider of daemon 2 accepts every set_text.
NextEdit ==
    \/ ServiceResolved(2, 1, 1)
    \/ DialLoop(2)
    \/ AcceptLoop(1)
    \/ \E i \in Inst : MainEvent(i, TRUE)
    \/ \E c \in 1..MaxConns, s \in Sides : RunStart(c, s)
    \/ \E c \in 1..MaxConns, s \in Sides, r \in RecvAny : RunRecv(c, s, r, TRUE)
    \/ \E c \in 1..MaxConns, s \in Sides : RunSendEdit(c, s, TRUE)
    \/ Poll(1)
    \/ \E text \in Copied : CopyNew(1, text)
    \/ \E c \in 1..MaxConns, s \in Sides : RunEmit(c, s)

SpecEdit == InitLocal /\ [][NextEdit]_vars

\* The same daemons; every task is scheduled fairly.
FairEdit ==
    /\ SpecEdit
    /\ WF_vars(DialLoop(2)) /\ WF_vars(AcceptLoop(1))
    /\ WF_vars(Poll(1))
    /\ WF_vars(\E i \in Inst : MainEvent(i, TRUE))
    /\ \A c \in 1..MaxConns, s \in Sides :
          /\ WF_vars(RunStart(c, s))
          /\ WF_vars(\E r \in RecvAny : RunRecv(c, s, r, TRUE))
          /\ WF_vars(RunEmit(c, s))
          /\ WF_vars(RunSendEdit(c, s, TRUE))

\* The same daemon with a working clipboard provider and endpoints that keep
\* reading their sockets and, once connected, send Clipboard frames or close.
NextJam ==
    \/ AcceptLoop(1)
    \/ MainEvent(1, TRUE)
    \/ \E c \in 1..MaxConns, s \in Sides : RunStart(c, s)
    \/ \E c \in 1..MaxConns, s \in Sides,
          r \in {Ok(Clipboard("a", 1000)), Err("Io")} : RunRecv(c, s, r, TRUE)
    \/ \E c \in 1..MaxConns, s \in Sides : RunEmit(c, s)
    \/ \E c \in 1..MaxConns, s \in Sides : RunExit(c, s)
    \/ \E c \in 1..MaxConns, s \in Sides : RunSendEdit(c, s, TRUE)
    \/ Poll(1)
    \/ \E text \in Copied : LocalCopy(1, text)
    \/ ForeignConnect(1)
    \/ \E c \in 1..MaxConns, s \in Sides : ForeignClose(c, s)

SpecJam == InitLocal /\ [][NextJam]_vars

\* Two root daemons that discover and dial each other; no user copies.
NextPair ==
    \/ \E i \in Inst : ServiceResolved(i, Other2(i), Other2(i))
    \/ \E i \in Inst : DialLoop(i)
    \/ \E i \in Inst : AcceptLoop(i)
    \/ \E i \in Inst, setOk \in BOOLEAN : MainEvent(i, setOk)
    \/ \E c \in 1..MaxConns, s \in Sides : RunTask(c, s)

InitPair == PairInit /\ CMIdle /\ FIdle

SpecPair == InitPair /\ [][NextPair]_vars

\* Discovery::browse of both daemons and the receiving end of the discovered
\* channel; any id may be announced, any number of times.
BrowseIds == {1, 2, 3}

NextBrowse ==
    \/ \E i \in Inst, id \in BrowseIds, addr \in Hosts : ServiceResolved(i, id, addr)
    \/ \E i \in Inst : DialRecvDiscovered(i)

SpecBrowse == InitLocal /\ [][NextBrowse]_vars

\* The first connection to instance i, from a foreign endpoint.
FirstConnect(i) ==
    /\ rConns = <<>>
    /\ ForeignConnect(i)

\* One root daemon, instance 1, whose user copies texts, and one foreign
\* endpoint that connects to it.
NextOne ==
    \/ AcceptLoop(1)
    \/ \E setOk \in BOOLEAN : MainEvent(1, setOk)
    \/ \E c \in 1..MaxConns, s \in Sides : RunTask(c, s)
    \/ \E c \in 1..MaxConns, s \in Sides, sent \in BOOLEAN : RunSendEdit(c, s, sent)
    \/ Poll(1)
    \/ \E text \in Copied : LocalCopy(1, text)
    \/ FirstConnect(1)
    \/ \E c \in 1..MaxConns, s \in Sides : ForeignClose(c, s)
    \/ \E c \in 1..MaxConns, s \in Sides : RunEmit(c, s)

SpecOne == InitLocal /\ [][NextOne]_vars

\* The same daemon; its tasks are scheduled fairly: a recv that the closed
\* stream makes ready completes, a send on the bounded event channel gets its
\* turn, the main loop takes the events, the poller's sends complete when
\* they can, and the registry mutex, which is FIFO, is granted to the main loop
\* although the poller takes it again and again.
FairOne ==
    /\ SpecOne
    /\ \A c \in 1..MaxConns, s \in Sides :
          /\ SF_vars(RunStart(c, s))
          /\ WF_vars(RunRecv(c, s, Err("Io"), TRUE))
          /\ SF_vars(RunExit(c, s))
          /\ SF_vars(RunEmit(c, s))
    /\ SF_vars(\E setOk \in BOOLEAN : MainEvent(1, setOk))
    /\ WF_vars(PollSend(1))

\* The same two daemons; the dial loops and accept loops are scheduled fairly.
FairPair ==
    /\ SpecPair
    /\ \A i \in Inst : WF_vars(DialLoop(i)) /\ WF_vars(AcceptLoop(i))

\* One root daemon, a foreign endpoint that may connect to it first, the
\* endpoints it dials, and the clock.
NextTimed ==
    \/ \E id \in RIds, addr \in Hosts \ Inst : ServiceResolved(1, id, addr)
    \/ DialLoop(1)
    \/ AcceptLoop(1)
    \/ \E setOk \in BOOLEAN : MainEvent(1, setOk)
    \/ \E c \in 1..MaxConns, s \in Sides : RunTask(c, s)
    \/ FirstConnect(1)
    \/ \E c \in 1..MaxConns, s \in Sides : ForeignClose(c, s)
    \/ Tick
    \/ \E c \in 1..MaxConns, s \in Sides : RunEmit(c, s)

SpecTimed == InitLocal /\ [][NextTimed]_vars

(***************************************************************************)
(* Root daemon: claims.                                                    *)
(***************************************************************************)
Queued(i) == {rEvents[i][k] : k \in DOMAIN rEvents[i]}

\* C2: when an instance with one PSK dials an instance with another PSK, the
\* handshake fails on both sides: no handshake returns Ok, no trust store gets
\* an entry, no registry gets an entry and no Connected event is emitted.
C2_MismatchedPskRejected ==
    rPsk[1] # rPsk[2] =>
        /\ \A c \in ConnIds, s \in Sides : rEp[c][s].hs # "Ok"
        /\ \A i \in Inst : /\ rTrust[i] = {}
                           /\ rPeers[i] = {}
                           /\ \A e \in Queued(i) : e.t # "Connected"

\* C4: handling a Disconnected{U} event removes only the entry that the
\* exited task's connection installed, never one installed by a later
\* connection to U.
C4_DisconnectRemovesOwnEntry ==
    [][\A i \in Inst :
         (/\ rEvents[i] # <<>>
          /\ Head(rEvents[i]).t = "Disconnected"
          /\ rEvents'[i] = Tail(rEvents[i]))
         => \A e \in rPeers[i] \ rPeers'[i] : e.tx = Head(rEvents[i]).src]_vars

\* C5 as stated: whenever the registry holds an entry, the task that owns the
\* receiving end of its channel has not ended.
C5_RegisteredTaskRunning ==
    \A i \in Inst : \A e \in rPeers[i] : TxOpen(e.tx)

\* C9: a handshake that received another variant where it expected a Hello or
\* an Auth returned AuthFailed, left peer_id unset, never runs the steady-state
\* loop, is in no registry entry, and the step changed no trust store and no
\* registry.
C9_Rejected(c, s) ==
    /\ rEp[c][s].hs = "AuthFailed"
    /\ rEp[c][s].peer_id = 0
    /\ rEp[c][s].run = "none"
    /\ \A i \in Inst : /\ \A e \in rPeers[i] : e.tx # <<c, s>>
                       /\ rDial[i].conn # c \/ s # "d"
                       /\ rAcc[i].conn # c \/ s # "a"

C9_WrongVariantIsAuthFailed ==
    [][\A c \in ConnIds, s \in Sides :
         rEp'[c][s].unexpected =>
            /\ C9_Rejected(c, s)'
            /\ ~rEp[c][s].unexpected =>
                  /\ rTrust' = rTrust /\ rTrustFile' = rTrustFile
                  /\ rPeers' = rPeers /\ rEvents' = rEvents]_vars

C9_Witness ==
    /\ \E c \in ConnIds : rEp[c]["d"].unexpected
    /\ \E c \in ConnIds : rEp[c]["a"].unexpected

RunIs(c, s, v) == c \in ConnIds /\ rEp[c][s].run = v

\* The step emits Disconnected from the task of side s of connection c.
DisconnectedEmitted(c, s) ==
    \E i \in Inst :
        /\ Len(rEvents'[i]) = Len(rEvents[i]) + 1
        /\ rEvents'[i][Len(rEvents'[i])] = Disconnected(rEp[c][s].peer_id, <<c, s>>)

HandshakeOrder == <<<<"d", "Hello">>, <<"a", "Hello">>, <<"d", "Auth">>, <<"a", "Auth">>>>

C8_Done(c) ==
    /\ c \in ConnIds
    /\ rConns[c].log = HandshakeOrder
    /\ \A s \in Sides :
          /\ rEp[c][s].hs = "Ok"
          /\ rEp[c][s].peer_id = HostOf(c, Other(s))
          /\ rEp[c][s].peer_name = NameOf(HostOf(c, Other(s)))

\* C8: between two instances with the same PSK, the handshake frames are
\* written in the order Hello (dialer), Hello (acceptor), Auth with the
\* challenge (dialer), Auth with the response (acceptor), and every
\* connection reaches the state where both handshakes returned Ok with the
\* other side's id and name.
C8_HandshakeCompletes ==
    /\ [](rPsk[1] = rPsk[2] =>
            \A c \in ConnIds :
                rConns[c].log = SubSeq(HandshakeOrder, 1, Len(rConns[c].log)))
    /\ \A c \in 1..MaxConns :
          (rPsk[1] = rPsk[2] /\ c \in ConnIds) ~> C8_Done(c)

C8_Witness ==
    /\ rPsk[1] = rPsk[2]
    /\ \E c \in ConnIds : C8_Done(c)

\* C10: no handshake, in either role, is still waiting for a frame after the
\* handshake budget has elapsed.
C10_HandshakeEndsWithinBudget ==
    \A i \in Inst :
        /\ InHandshake(rAcc[i]) => rAcc[i].waited <= HandshakeBudget
        /\ InHandshake(rDial[i]) => rDial[i].waited <= HandshakeBudget

(***************************************************************************)
(* Claims about the pure functions (SpecFn).                               *)
(***************************************************************************)
\* C11: for all keys K, K' and every challenge C, verify_auth_response(K, C,
\* compute_auth_response(K', C)) is true exactly when K' = K.
C11_VerifyIffSameKey ==
    (fnArgs.f = "auth" /\ fnRet.done) => (fnRet.val <=> (fnArgs.other = fnArgs.psk))

\* A response computed with another key has been verified and refused.
C11_Witness ==
    fnArgs.f = "auth" /\ fnRet.done /\ fnArgs.other # fnArgs.psk /\ fnRet.val = FALSE

\* C12: for every message m of the five variants, Message::decode of
\* Message::encode(m) succeeds and is m.
C12_RoundTrip ==
    (fnArgs.f = "roundtrip" /\ fnRet.done) =>
        (~fnRet.val.panic /\ fnRet.val.res = Ok(fnArgs.m))

\* The part of C12 the code has: a message of a struct variant round-trips.
C12_StructVariantsRoundTrip ==
    (fnArgs.f = "roundtrip" /\ fnRet.done /\ fnArgs.m.t \in {"Hello", "Auth", "Clipboard"}) =>
        (~fnRet.val.panic /\ fnRet.val.res = Ok(fnArgs.m))

\* The maximum payload length a receiver is to accept (16 MiB recommended),
\* scaled to the streams of the model.
MaxFrameLen == 2

\* The length a stream declares in its first four bytes.
Declared(stream) == from_be_bytes(SubSeq(stream, 1, 4))

\* C13: recv rejects with InvalidLength every frame whose declared length is
\* over the maximum, before it allocates or reads the body.
C13_OversizedRejected ==
    (/\ fnArgs.f = "recv" /\ fnRet.done
     /\ Len(fnArgs.stream) >= 4 /\ Declared(fnArgs.stream) > MaxFrameLen)
    => (fnRet.val.res = Err("InvalidLength") /\ fnRet.val.allocated = 0)

(***************************************************************************)
(* Claims about discovery, trust and pairing in the ConnectionManager      *)
(* (SpecCM).                                                               *)
(***************************************************************************)
\* The pairing step that may run inside handle_discovered_peer.
Mids == {"none", "set", "expire"}

\* The conditions of C14 on a discovered peer; pairing mode counts as active
\* when the handler reads it so: before the step for the group, after it for
\* the trust store.
C14_MayDial(id, group) ==
    /\ id # SelfId
    /\ (group = SelfGroup \/ cmPairMode)
    /\ (id \in cmAllowed \/ cmAllowed = {} \/ cmPairMode')

\* C14: handle_discovered_peer starts a dial for P only if P.id is not the
\* local id, and P.group is the local group or pairing mode is active, and
\* P.id is in the trust store or the store is empty or pairing mode is active;
\* in every other case the registry and the tasks are left unchanged.
C14_DialOnlyWhenPermitted ==
    [][\A id \in CMIds, g \in Groups :
         (\E mid \in Mids : HandleDiscoveredPeer(id, g, mid))
         => IF C14_MayDial(id, g)
            THEN cmTasks' # cmTasks =>
                    /\ Len(cmTasks') = Len(cmTasks) + 1
                    /\ cmTasks'[Len(cmTasks')].kind = "dial"
                    /\ cmTasks'[Len(cmTasks')].disc = id
            ELSE cmPeers' = cmPeers /\ cmTasks' = cmTasks]_vars

\* A dial was started for a peer of the trust store while others are not in it.
C14_Witness ==
    /\ cmAllowed # {} /\ cmAllowed # CMIds \ {SelfId}
    /\ \E t \in 1..Len(cmTasks) :
          cmTasks[t].kind = "dial" /\ cmTasks[t].disc \in cmAllowed

\* Dial task t has not finished and still holds the id it was spawned for
\* (a task past handle_connection keeps only the id of the Hello).
DialOutstanding(t) ==
    /\ t \in 1..Len(cmTasks)
    /\ cmTasks[t].kind = "dial"
    /\ cmTasks[t].pc \notin {"done", "closed"}
    /\ cmTasks[t].disc # 0

\* C15: at most one dial task per peer UUID is outstanding at any time,
\* whatever the interleaving of discovery events, accepts and connection exits.
C15_OneDialPerPeer ==
    \A t, u \in 1..Len(cmTasks) :
        (DialOutstanding(t) /\ DialOutstanding(u) /\ cmTasks[t].disc = cmTasks[u].disc)
        => t = u

\* The part of C15 the code has: a discovered peer whose id has a Connecting or
\* Connected entry starts no dial and changes no entry.
C15_BusyPeerDropped ==
    [][\A id \in CMIds, g \in Groups, mid \in Mids :
         (/\ HandleDiscoveredPeer(id, g, mid)
          /\ \E e \in cmPeers : e.id = id /\ e.state \in {"Connecting", "Connected"})
         => cmPeers' = cmPeers /\ cmTasks' = cmTasks]_vars

\* C16: after a successful inbound handshake with a peer that is not in the
\* trust store, while the store is not empty and pairing mode is not active,
\* the connection is rejected: the task ends, no registry entry is installed
\* and the trust store, in memory and on disk, is unchanged.
C16_UnknownInboundRejected ==
    [][\A t \in 1..MaxTasks :
         (/\ \E saveOk \in BOOLEAN : AcceptAllow(t, saveOk)
          /\ cmTasks[t].hello \notin cmAllowed
          /\ cmAllowed # {}
          /\ ~cmPairMode)
         => (/\ cmTasks'[t].pc = "done"
             /\ cmPeers' = cmPeers
             /\ cmAllowed' = cmAllowed
             /\ cmFile' = cmFile)]_vars

\* C17: after a successful handshake with a peer that is not yet in the trust
\* store, while the store is empty or pairing mode is active, the peer's id is
\* in the trust store and has been persisted.
C17_NewPeerTrustedAndPersisted ==
    [][\A t \in 1..MaxTasks :
         (/\ \E saveOk \in BOOLEAN : AcceptAllow(t, saveOk) \/ DialAllow(t, saveOk)
          /\ cmTasks[t].hello \notin cmAllowed
          /\ (cmAllowed = {} \/ cmPairMode))
         => (cmTasks[t].hello \in cmAllowed' /\ cmTasks[t].hello \in cmFile')]_vars

\* C18: after enable_pairing(N) pairing mode is true for N seconds (from the
\* write of the pairing task until N ticks have passed) and is then cleared
\* by the task itself; once it is cleared it stays so, and a discovered peer
\* with another group is dropped again.
C18_PairingWindow ==
    /\ [](cmPairing.pc = "sleeping" => cmPairMode)
    /\ [](cmPairing.pc = "done" => (cmPairing.left = 0 /\ ~cmPairMode))
    /\ (cmPairing.pc = "spawned" ~> (cmPairing.pc = "done" /\ ~cmPairMode))
    /\ [][\A id \in CMIds, g \in Groups, mid \in Mids :
            (HandleDiscoveredPeer(id, g, mid) /\ cmPairing.pc = "done" /\ g # SelfGroup)
            => UNCHANGED <<cmPeers, cmTasks>>]_vars

\* The window has passed and the flag is clear again, with a dial started
\* since enable_pairing.
C18_Witness ==
    cmPairing.pc = "done" /\ ~cmPairMode /\ cmTasks # <<>>

\* The ids of a trust store.
TrustedIds(store) == {p.id : p \in store}

\* C19: trust(id, name) on an id that is present changes nothing (the name and
\* first_seen of the entry keep their first values); trust removes no entry,
\* so the set of trusted ids only grows.
C19_TrustKeepsEntries ==
    (fnArgs.f = "trust" /\ fnRet.done) =>
        /\ is_trusted(fnArgs.store, fnArgs.id) => fnRet.val = fnArgs.store
        /\ fnArgs.store \subseteq fnRet.val
        /\ TrustedIds(fnRet.val) = TrustedIds(fnArgs.store) \cup {fnArgs.id}

\* trust was called for a present id with another name at a later time.
C19_Witness ==
    /\ fnArgs.f = "trust" /\ fnRet.done
    /\ \E p \in fnArgs.store :
          p.id = fnArgs.id /\ p.name # fnArgs.name /\ p.first_seen # fnArgs.now

\* No step of the daemons removes or changes an entry of a trust store, in
\* memory or in the file.
C19_DaemonKeepsEntries ==
    [][\A i \in Inst : rTrust[i] \subseteq rTrust'[i] /\ rTrustFile[i] \subseteq rTrustFile'[i]]_vars

\* C20: Discovery::browse never emits a peer whose id is the local id, and
\* emits every other id at most once: a peer is put on the discovered channel
\* only when its id is not ours and not in seen, the id is in seen from then
\* on, and seen never loses an id.
C20_BrowseEmitsOnce ==
    [][\A i \in Inst :
         /\ rSeen[i] \subseteq rSeen'[i]
         /\ Len(rDq'[i]) > Len(rDq[i]) =>
               /\ Len(rDq'[i]) = Len(rDq[i]) + 1
               /\ LET peer == rDq'[i][Len(rDq'[i])]
                  IN  peer.id # i /\ peer.id \notin rSeen[i] /\ peer.id \in rSeen'[i]]_vars

\* Both other ids were emitted to instance 1, one of them already taken by
\* the dial loop.
C20_Witness ==
    rSeen[1] = BrowseIds \ {1} /\ Len(rDq[1]) = 1 /\ rDial[1].pc = "connect"

(***************************************************************************)
(* Claims about redialing, control frames and the distribution of edits    *)
(* in the root daemon.                                                     *)
(***************************************************************************)
\* Instance i had a connection with peer id whose run task has ended, and its
\* registry holds no entry for id.
EndedAndRemoved(i, id) ==
    /\ ~contains_key(rPeers[i], id)
    /\ \E c \in ConnIds, s \in Sides :
          HostOf(c, s) = i /\ rEp[c][s].peer_id = id /\ rEp[c][s].run = "done"

\* C21: after a connection to peer U has ended and its registry entry has been
\* removed, the next resolution of U is not skipped by browse: U is put on the
\* discovered channel, from which the dial loop dials it.
C21_ResolvedAgainIsDialed ==
    \A i \in Inst, id \in RIds :
        (id # i /\ EndedAndRemoved(i, id)) => ~skipped(i, rSeen[i], id)

\* C22: in run's loop a received Ping makes the task send exactly one Pong and
\* nothing else, and a received Pong, Hello or Auth is ignored; none of the
\* four emits a PeerEvent, changes the registry or the trust store, or ends
\* the connection.
C22_ControlFramesLeaveConnectionUp ==
    [][\A c \in 1..MaxConns, s \in Sides :
          c \in ConnIds =>
          \A r \in RecvResults(c, s) :
             (RunRecv(c, s, r, TRUE) /\ r.ok
                  /\ r.msg.t \in {"Ping", "Pong", "Hello", "Auth"})
             => /\ rEp'[c][s].run = "loop"
                /\ rConns'[c] = IF r.msg.t = "Ping"
                                THEN Delivered(Consumed(rConns[c], s), s, Pong)
                                ELSE Consumed(rConns[c], s)
                /\ UNCHANGED <<rEvents, rPeers, rTrust, rTrustFile>>]_vars

\* C25: no task holds the guard of the peer registry while it waits at a
\* suspension point: the poller, the only task that keeps the guard over a
\* send, never waits on a full outbound queue with the guard held.
C25_RegistryLockNeverHeldWaiting ==
    \A i \in Inst :
        rPoll[i].pc = "send" => SendReady(Head(rPoll[i].todo))

\* C26: an outbound queue never holds more than its capacity, and the poller
\* does not wait on a full queue: an edit for a peer whose queue has room is
\* never held back behind the send to another peer.
C26_FullQueueDelaysNobody ==
    /\ \A c \in ConnIds, s \in Sides : Len(rEp[c][s].outq) <= MaxOut
    /\ \A i \in Inst : \A k \in DOMAIN rPoll[i].todo :
          (TxOpen(rPoll[i].todo[k]) /\ SendReady(rPoll[i].todo[k]))
          => \A j \in 1..(k - 1) : SendReady(rPoll[i].todo[j])

\* The number of places of q that hold x.
Occurrences(q, x) == Cardinality({k \in DOMAIN q : q[k] = x})

\* The copies of the edit (content, timestamp) on their way from the poller of
\* the host of side s of connection c to the provider of the peer: the send
\* the poller still has to make, the outbound queue, the frames on the wire
\* and the events the peer has emitted and its main loop has not taken.
EditCopies(c, s, content, timestamp) ==
    LET i == HostOf(c, s)
        o == Other(s)
    IN  (IF rPoll[i].pc = "send" /\ rPoll[i].item = <<content, timestamp>>
         THEN Occurrences(rPoll[i].todo, <<c, s>>) ELSE 0)
        + Occurrences(rEp[c][s].outq, <<content, timestamp>>)
        + Occurrences(rConns[c].inbox[o], Clipboard(content, timestamp))
        + Occurrences(rEvents[HostOf(c, o)], ClipboardEv(content, timestamp, <<c, o>>))
        + (IF rEp[c][o].held = ClipboardEv(content, timestamp, <<c, o>>) THEN 1 ELSE 0)

\* The poller of instance i detects the text as a change of the clipboard.
Detects(i, content, timestamp) ==
    /\ PollTick(i, timestamp)
    /\ rClip[i] = content

\* The main loop of instance i takes the event Clipboard{content, timestamp}
\* and writes content to the provider.
WritesEdit(i, content, timestamp, src) ==
    /\ MainEvent(i, TRUE)
    /\ Head(rEvents[i]) = ClipboardEv(content, timestamp, src)
    /\ rClip'[i] = content

IsClipboardFrame(m) == m.t = "Clipboard"

\* The edits of connection c on their way from the host of side s to the main
\* loop of the peer, the oldest first: the Clipboard events the peer's run
\* task emitted, the one it is waiting to emit, the Clipboard frames written
\* to the stream, and the outbound queue.
EditsInOrder(c, s) ==
    LET o == Other(s)
        isMine(e) == e.t = "Clipboard" /\ e.src = <<c, o>>
        evs == SelectSeq(rEvents[HostOf(c, o)], isMine)
        frs == SelectSeq(rConns[c].inbox[o], IsClipboardFrame)
        held == IF rEp[c][o].held = NoEvent THEN <<>>
                ELSE <<<<rEp[c][o].held.content, rEp[c][o].held.timestamp>>>>
    IN  [k \in 1..Len(evs) |-> <<evs[k].content, evs[k].timestamp>>]
        \o held
        \o [k \in 1..Len(frs) |-> <<frs[k].content, frs[k].timestamp>>]
        \o rEp[c][s].outq

C27_TrustBlockUnderOneLock ==
    /\ [][\A i \in Inst :
            /\ ~(rDial'[i].pc = "save" /\ rAcc'[i].pc = "save")
            /\ \A saved \in BOOLEAN :
                  /\ DialTrustSave(i, saved) =>
                        /\ ~is_trusted(rTrust[i], rDial[i].their_id)
                        /\ Cardinality(rTrust'[i]) = Cardinality(rTrust[i]) + 1
                        /\ saved => rTrustFile'[i] = rTrust'[i]
                  /\ AcceptTrustSave(i, saved) =>
                        /\ ~is_trusted(rTrust[i], rAcc[i].their_id)
                        /\ Cardinality(rTrust'[i]) = Cardinality(rTrust[i]) + 1
                        /\ saved => rTrustFile'[i] = rTrust'[i]]_vars

\* Both loops of a daemon have finished a handshake with the same new peer;
\* one of them has inserted it and the other one is about to take the guard.
C27_Witness ==
    \E i \in Inst :
        /\ rDial[i].pc = "trust" /\ rAcc[i].pc = "insert"
        /\ rDial[i].their_id = rAcc[i].their_id
        /\ Cardinality({p \in rTrust[i] : p.id = rAcc[i].their_id}) = 1

\* C30: in the ConnectionManager a failed save inside add_peer is not fatal:
\* the peer is in the allowlist in memory and the connection goes on to the
\* registry step and the steady state.
C30_SaveFailureIsNotFatal ==
    [][\A t \in 1..MaxTasks :
          (t \in DOMAIN cmTasks /\ (DialAllow(t, FALSE) \/ AcceptAllow(t, FALSE)))
          => /\ cmTasks[t].hello \in cmAllowed'
             /\ cmTasks'[t].pc = "registry"]_vars

(***************************************************************************)
(* The files instance.toml and trusted.toml.                               *)
(***************************************************************************)
\* A path of the configuration directory: no file, or a file with its text
\* and whether this process may read it.
Absent == [there |-> FALSE, readable |-> FALSE, text |-> <<>>]
Present(text) == [there |-> TRUE, readable |-> TRUE, text |-> text]
Unreadable(text) == [there |-> TRUE, readable |-> FALSE, text |-> text]

\* The two Instance types: the one of the root crate and the one of the
\* shared crate.
Crates == {"root", "shared"}

\* toml::to_string_pretty(&Instance); a group of None is left out.
instance_to_toml(crate, inst) ==
    IF crate = "root" THEN <<Line("id", inst.id)>>
    ELSE <<Line("id", inst.id), Line("device_name", inst.device_name),
           Line("allowed_peers", inst.allowed_peers)>>

\* toml::to_string_pretty(&TrustStore): the table peers, one entry a peer.
store_to_toml(store) ==
    <<Line("table", "peers")>> \o [k \in 1..Len(store) |-> Line("peer", store[k])]

\* toml::from_str::<Instance>: id is required, and so is device_name in the
\* shared crate; allowed_peers has #[serde(default)].
instance_from_toml(crate, text) ==
    LET has(k) == \E n \in DOMAIN text : text[n].k = k
        val(k) == text[CHOOSE n \in DOMAIN text : text[n].k = k].v
    IN  IF ~has("id") \/ val("id") \notin RIds THEN Err("Parse")
        ELSE IF crate = "root" THEN Ok([id |-> val("id")])
        ELSE IF ~has("device_name") THEN Err("Parse")
        ELSE Ok([id |-> val("id"), device_name |-> val("device_name"),
                 allowed_peers |-> IF has("allowed_peers") THEN val("allowed_peers")
                                   ELSE <<>>])

\* std::fs::write(path, contents): File::create truncates the file, write_all
\* then writes into it.  cut is how far the call gets: -1 when the file cannot
\* be opened, Len(contents) when all is written, and less when the write
\* fails or the process is stopped on the way.
fs_write(file, contents, cut) ==
    IF cut < 0 THEN [ok |-> FALSE, file |-> file]
    ELSE [ok |-> cut >= Len(contents),
          file |-> Present(SubSeq(contents, 1, IF cut >= Len(contents)
                                                THEN Len(contents) ELSE cut))]

\* Instance::save, TrustStore::save
save(contents, file, cut) == fs_write(file, contents, cut)

PathNeverExists(file) == FALSE

\* Path::exists
path_exists(file) == file.there

\* Instance::create_new (shared), Self { id: Uuid::new_v4() } (root)
create_new(crate, fresh) ==
    IF crate = "root" THEN [id |-> fresh]
    ELSE [id |-> fresh, device_name |-> "host", allowed_peers |-> <<>>]

\* Instance::load (shared), read_to_string and from_str (root)
load(crate, file) ==
    IF ~file.readable THEN Err("Io") ELSE instance_from_toml(crate, file.text)

\* Instance::load_or_create: the result and the file it leaves.
load_or_create(crate, file, fresh, cut) ==
    IF path_exists(file)
    THEN [res |-> load(crate, file), file |-> file]
    ELSE LET instance == create_new(crate, fresh)
             saved == save(instance_to_toml(crate, instance), file, cut)
         IN  [res |-> IF saved.ok THEN Ok(instance) ELSE Err("Io"),
              file |-> saved.file]

\* How far a write can get.
MaxCut == 3
Cuts == -1..MaxCut

\* The instances a file can hold.
Instances(crate) ==
    IF crate = "root" THEN {[id |-> i] : i \in RIds}
    ELSE {[id |-> i, device_name |-> "host", allowed_peers |-> ps] :
             i \in RIds, ps \in {<<>>, <<2>>}}

\* What a start can find at the path of instance.toml: nothing, a file a
\* save has written, the front part of one, a file of another program, or a
\* file this user may not read.
InstanceFiles(crate) ==
    {Absent, Present(<<Line("junk", 0)>>)}
    \cup UNION {{Present(SubSeq(instance_to_toml(crate, inst), 1, n)) :
                    n \in 0..Len(instance_to_toml(crate, inst))} :
                 inst \in Instances(crate)}
    \cup {Unreadable(instance_to_toml(crate, inst)) : inst \in Instances(crate)}

\* The calls.
LoadCalls ==
    {[f |-> "load_or_create", crate |-> crate, file |-> file, fresh |-> fresh,
      cut |-> cut] :
        crate \in Crates, file \in InstanceFiles("root") \cup InstanceFiles("shared"),
        fresh \in RIds, cut \in Cuts}
SavedTexts ==
    UNION {{instance_to_toml(crate, inst) : inst \in Instances(crate)} :
              crate \in Crates}
    \cup {store_to_toml(st) : st \in {<<>>, <<1>>, <<1, 2>>}}
SaveCalls ==
    {[f |-> "save", contents |-> contents, file |-> file, cut |-> cut] :
        contents \in SavedTexts,
        file \in {Absent} \cup {Present(old) : old \in SavedTexts},
        cut \in Cuts}

\* A start of the daemon: Instance::load_or_create()
ApplyLoadOrCreate ==
    /\ fnArgs.f = "load_or_create" /\ ~fnRet.done
    /\ fnRet' = Returned(load_or_create(fnArgs.crate, fnArgs.file, fnArgs.fresh,
                                        fnArgs.cut))
    /\ UNCHANGED <<fnArgs, sel, nm, cb, cmVars, rVars>>

\* The daemon is started again, with the file the last start left.
Restart(fresh, cut) ==
    /\ fnArgs.f = "load_or_create" /\ fnRet.done
    /\ fnArgs' = [fnArgs EXCEPT !.file = fnRet.val.file, !.fresh = fresh, !.cut = cut]
    /\ fnRet' = NotReturned
    /\ UNCHANGED <<sel, nm, cb, cmVars, rVars>>

\* self.save()
ApplySave ==
    /\ fnArgs.f = "save" /\ ~fnRet.done
    /\ fnRet' = Returned(save(fnArgs.contents, fnArgs.file, fnArgs.cut))
    /\ UNCHANGED <<fnArgs, sel, nm, cb, cmVars, rVars>>

InitStore ==
    /\ RInit /\ CMIdle
    /\ fnArgs \in LoadCalls \cup SaveCalls
    /\ fnRet = NotReturned
    /\ HIdle

NextStore ==
    \/ ApplyLoadOrCreate
    \/ \E fresh \in RIds, cut \in Cuts : Restart(fresh, cut)
    \/ ApplySave

SpecStore == InitStore /\ [][NextStore]_vars

\* C28: load_or_create returns the instance a save has persisted when the
\* file is there and can be read, makes and persists a new id only when no
\* file is there, and fails when a file that is there cannot be read or
\* parsed; it never writes to a file that is there, so the id does not change
\* while the file exists.
C28_LoadOrCreateKeepsId ==
    (fnArgs.f = "load_or_create" /\ fnRet.done) =>
        LET a == fnArgs
            r == fnRet.val
            parsed == instance_from_toml(a.crate, a.file.text)
        IN  /\ \A inst \in Instances(a.crate) :
                   a.file = Present(instance_to_toml(a.crate, inst))
                   => r.res = Ok(inst)
            /\ a.file.there => r.file = a.file
            /\ (a.file.there /\ a.file.readable /\ parsed.ok) => r.res = parsed
            /\ (a.file.there /\ ~(a.file.readable /\ parsed.ok)) => ~r.res.ok
            /\ (~a.file.there /\ r.res.ok)
                   => /\ r.res.msg.id = a.fresh
                      /\ r.file = Present(instance_to_toml(a.crate, r.res.msg))
            /\ (r.res.ok /\ r.res.msg.id # a.fresh) => a.file.there

\* A start has found the file an earlier start of the same daemon created and
\* has returned its id, although another fresh id was at hand.
C28_Witness ==
    /\ fnArgs.f = "load_or_create" /\ fnRet.done
    /\ fnArgs.crate = "shared"
    /\ fnArgs.file = Present(instance_to_toml("shared", create_new("shared", 1)))
    /\ fnArgs.fresh = 2
    /\ fnRet.val.res.ok /\ fnRet.val.res.msg.id = 1

\* C29: a save replaces the file atomically: whatever happens to the call,
\* the path holds the old contents or the complete new contents.
C29_SaveIsAtomic ==
    /\ (fnArgs.f = "save" /\ fnRet.done)
          => fnRet.val.file \in {fnArgs.file, Present(fnArgs.contents)}
    /\ (fnArgs.f = "load_or_create" /\ fnRet.done /\ ~fnArgs.file.there)
          => \/ fnRet.val.file = fnArgs.file
             \/ fnRet.val.file = Present(instance_to_toml(fnArgs.crate,
                                     create_new(fnArgs.crate, fnArgs.fresh)))

(***************************************************************************)
(* Claims about self-connections, registration, waiting and races.         *)
(***************************************************************************)
\* C31: on the accept path a peer whose Hello carries the local instance id
\* is rejected, so the registry of the root daemon and the registry of the
\* ConnectionManager never hold an entry keyed by the local instance id.
C31_NoEntryUnderOwnId ==
    [][/\ \A i \in Inst :
            AcceptLoop(i) => (contains_key(rPeers'[i], i) => contains_key(rPeers[i], i))
       /\ \A e \in cmPeers' : e.id # SelfId]_vars

\* C32: every connection task of the root daemon that is in its steady-state
\* loop with peer U has the sender of its own outbound queue in the registry
\* under U.
C32_LoopingTaskIsRegistered ==
    \A c \in ConnIds, s \in Sides :
        (HostOf(c, s) \in Inst /\ rEp[c][s].run = "loop")
        => [id |-> rEp[c][s].peer_id, tx |-> <<c, s>>] \in rPeers[HostOf(c, s)]

\* The tasks of daemon i wait for each other in a circle: the poller waits,
\* with the guard of the registry, on the full outbound queue of a connection
\* task; that task waits in events_tx.send on the full event channel; and the
\* main loop, the only reader of the event channel, waits for the guard of the
\* registry to handle a Disconnected.
Deadlocked(i) ==
    /\ rPoll[i].pc = "send"
    /\ LET tx == Head(rPoll[i].todo)
       IN  /\ ~SendReady(tx)
           /\ rEp[tx[1]][tx[2]].run = "emit"
    /\ Len(rEvents[i]) >= MaxEvents
    /\ Head(rEvents[i]).t = "Disconnected"

\* C33: the poller, the connection tasks and the main loop of the root daemon
\* never wait for each other in a circle on the registry lock, an outbound
\* queue and the event channel.
C33_NoDeadlock == \A i \in Inst : ~Deadlocked(i)

(***************************************************************************)
(* PeerConnection::run, the select! of one task with its stream seen byte  *)
(* by byte.  recv is two read_exact calls on the stream; the bytes a       *)
(* read_exact has taken are in len_buf or buf, which belong to the future  *)
(* of recv.  select! drops that future when clipboard_rx.recv() completes  *)
(* first, and the next turn of the loop makes a new one.                   *)
(***************************************************************************)
\* The frames the peer writes and the edits the poller queues.
MaxSent == 2
MaxQueued == 2
SelFrames == {Clipboard(x, ts) : x \in Copied, ts \in Now}

\* The task is in its loop; the peer has written nothing yet.
SelStart == [SelIdle EXCEPT !.run = "loop", !.len = 0, !.pos = 0]

\* The offsets of the stream at which a frame of the peer begins or ends.
RECURSIVE FrameEnds(_)
FrameEnds(frames) ==
    IF frames = <<>> THEN {0}
    ELSE {0} \cup {Len(encode(Head(frames)).data) + e : e \in FrameEnds(Tail(frames))}

\* What u32::from_be_bytes(len_buf) can be when len_buf was not filled from
\* the first byte of a frame: a length that the bytes to come reach, or one
\* they do not reach.
MisreadLengths == {1, MaxSent * 7 + 1}

\* The peer writes a frame with write_all.
SelPeerWrite(m) ==
    /\ sel.run = "loop"
    /\ Len(sel.sent) < MaxSent
    /\ sel' = [sel EXCEPT !.sent = Append(@, m), !.wire = @ \o encode(m).data]
    /\ UNCHANGED <<fnArgs, fnRet, nm, cb, cmVars, rVars>>

\* The poller queues an edit on the channel of the task.
SelQueue ==
    /\ sel.run = "loop"
    /\ sel.queued < MaxQueued
    /\ sel.edits < MaxOut
    /\ sel' = [sel EXCEPT !.edits = @ + 1, !.queued = @ + 1]
    /\ UNCHANGED <<fnArgs, fnRet, nm, cb, cmVars, rVars>>

\* The bytes the read_exact in progress still asks for.
SelNeed == IF Len(sel.got) < 4 THEN 4 - Len(sel.got) ELSE 4 + sel.len - Len(sel.got)

\* The bytes that go away with a dropped future of recv.
SelDropped(got) == Len(got)

\* select! polls self.recv(): read_exact takes n of the bytes that have
\* arrived.  With the prefix complete the length is known, and with the body
\* complete recv returns Message::decode(&buf) and the match arm runs.
SelRecv(n, misread) ==
    LET aligned == (sel.pos - Len(sel.got)) \in FrameEnds(sel.sent)
        g == sel.got \o SubSeq(sel.wire, 1, n)
        len == IF Len(g) < 4 THEN 0
               ELSE IF Len(sel.got) >= 4 THEN sel.len
               ELSE IF aligned THEN from_be_bytes(SubSeq(g, 1, 4))
               ELSE misread
        result == IF aligned THEN decode(g) ELSE Err("InvalidFormat")
    IN  /\ sel.run = "loop"
        /\ n >= 1 /\ n <= SelNeed /\ n <= Len(sel.wire)
        /\ sel' = IF Len(g) >= 4 /\ Len(g) = 4 + len
                  THEN [sel EXCEPT !.wire = SubSeq(@, n + 1, Len(@)), !.pos = @ + n,
                                   !.got = <<>>, !.len = 0,
                                   !.out = Append(@, result),
                                   !.run = RunAfterRecv(result)]
                  ELSE [sel EXCEPT !.wire = SubSeq(@, n + 1, Len(@)), !.pos = @ + n,
                                   !.got = g, !.len = len]
        /\ UNCHANGED <<fnArgs, fnRet, nm, cb, cmVars, rVars>>

\* select! takes the branch clipboard_rx.recv(): the future of recv is
\* dropped with len_buf and buf, and the edit is sent.
SelEdit ==
    /\ sel.run = "loop"
    /\ sel.edits > 0
    /\ sel' = [sel EXCEPT !.edits = @ - 1, !.got = <<>>, !.len = 0,
                          !.lost = @ + SelDropped(sel.got)]
    /\ UNCHANGED <<fnArgs, fnRet, nm, cb, cmVars, rVars>>

InitSelect ==
    /\ RInit /\ CMIdle
    /\ fnArgs = NoCall /\ fnRet = NotReturned
    /\ sel = SelStart /\ nm = NmIdle /\ cb = CbIdle

NextSelect ==
    \/ \E m \in SelFrames : SelPeerWrite(m)
    \/ SelQueue
    \/ \E n \in 1..4, misread \in MisreadLengths : SelRecv(n, misread)
    \/ SelEdit

SpecSelect == InitSelect /\ [][NextSelect]_vars

\* C34: dropping a recv in progress for an outbound edit discards no byte
\* taken from the stream, and what recv has returned is, in order, the
\* frames the peer has written, each decoded from its first byte to its last.
C34_CancelledRecvKeepsBytes ==
    /\ sel.lost = 0
    /\ Len(sel.out) <= Len(sel.sent)
    /\ \A n \in 1..Len(sel.out) : sel.out[n] = Ok(sel.sent[n])

(***************************************************************************)
(* Root daemon: the poller and the Clipboard arm of the main loop, one     *)
(* step per lock.  The poller reads the provider under the clipboard lock  *)
(* and compares under the lock of last_content; the main loop writes       *)
(* last_content under its lock, drops it, and then locks the clipboard.    *)
(***************************************************************************)
\* The copies the user makes.
MaxCopies == 2
UserTexts == Copied \ Texts

\* The user copies a text on the machine of instance i.
UserCopy(i, text) ==
    /\ rClip[i] # text
    /\ Len(rHist[i].copied) < MaxCopies
    /\ rClip' = [rClip EXCEPT ![i] = text]
    /\ rHist' = [rHist EXCEPT ![i].copied = Append(@, text)]
    /\ UNCHANGED <<cmVars, fVars, rMain>>
    /\ UNCHANGED <<rPoll, rPsk, rTrust, rTrustFile, rPeers, rEvents, rSeen, rDq, rAcc,
                   rDial, rLast, rConns, rEp>>

\* main, the poller: interval.tick and get_text under the clipboard lock.
PollGet(i) ==
    /\ rPoll[i].pc = "tick"
    /\ rPoll' = [rPoll EXCEPT ![i] = [pc |-> "got", todo |-> <<>>, item |-> <<rClip[i]>>]]
    /\ UNCHANGED <<cmVars, fVars, rMain, rHist>>
    /\ UNCHANGED <<rPsk, rTrust, rTrustFile, rPeers, rEvents, rSeen, rDq, rAcc,
                   rDial, rClip, rLast, rConns, rEp>>

\* main, the poller: last_clone.lock(), the comparison and, for a new text,
\* *last = content and peers_clone.lock().
PollCompare(i, timestamp) ==
    LET content == rPoll[i].item[1]
    IN  /\ rPoll[i].pc = "got"
        /\ IF content # rLast[i] /\ content # ""
           THEN /\ Len(rHist[i].cast) <= MaxCopies
                /\ rLast' = [rLast EXCEPT ![i] = content]
                /\ rHist' = [rHist EXCEPT ![i].cast = Append(@, content)]
                /\ \E order \in IterOrders(rPeers[i]) :
                      rPoll' = [rPoll EXCEPT ![i] =
                         IF order = <<>> THEN PollIdle
                         ELSE [pc |-> "send", todo |-> order,
                               item |-> <<content, timestamp>>]]
           ELSE /\ rPoll' = [rPoll EXCEPT ![i] = PollIdle]
                /\ UNCHANGED <<rLast, rHist>>
        /\ UNCHANGED <<cmVars, fVars, rMain>>
        /\ UNCHANGED <<rPsk, rTrust, rTrustFile, rPeers, rEvents, rSeen, rDq, rAcc,
                       rDial, rClip, rConns, rEp>>

\* main, the event loop, PeerEvent::Clipboard: *last = content and drop(last).
MainClipboardLast(i) ==
    /\ rMain[i].pc = "recv"
    /\ rEvents[i] # <<>>
    /\ Head(rEvents[i]).t = "Clipboard"
    /\ rEvents' = [rEvents EXCEPT ![i] = Tail(@)]
    /\ rLast' = [rLast EXCEPT ![i] = Head(rEvents[i]).content]
    /\ rMain' = [rMain EXCEPT ![i] = [pc |-> "set", content |-> Head(rEvents[i]).content]]
    /\ UNCHANGED <<cmVars, fVars, rHist>>
    /\ UNCHANGED <<rPoll, rPsk, rTrust, rTrustFile, rPeers, rSeen, rDq, rAcc, rDial,
                   rClip, rConns, rEp>>

\* main, the event loop, PeerEvent::Clipboard: clipboard_clone.lock() and
\* cb.set_text(&content).
MainClipboardSet(i, setOk) ==
    /\ rMain[i].pc = "set"
    /\ rClip' = [rClip EXCEPT ![i] = IF setOk THEN rMain[i].content ELSE @]
    /\ rMain' = [rMain EXCEPT ![i] = MainIdle]
    /\ UNCHANGED <<cmVars, fVars, rHist>>
    /\ UNCHANGED <<rPoll, rPsk, rTrust, rTrustFile, rPeers, rEvents, rSeen, rDq, rAcc,
                   rDial, rLast, rConns, rEp>>

\* main, the event loop: the arms Connected and Disconnected.
MainOther(i) ==
    /\ rEvents[i] # <<>>
    /\ Head(rEvents[i]).t # "Clipboard"
    /\ MainEvent(i, TRUE)

\* Daemon 1 with one peer that sends Clipboard frames, a user who copies
\* texts the peer never sends, and a provider that accepts every set_text.
NextEcho ==
    \/ Len(rConns) = 0 /\ ForeignConnect(1)
    \/ AcceptLoop(1)
    \/ \E c \in 1..MaxConns, s \in Sides : RunTask(c, s)
    \/ \E c \in 1..MaxConns, s \in Sides : RunEmit(c, s)
    \/ \E c \in 1..MaxConns, s \in Sides : RunSendEdit(c, s, TRUE)
    \/ MainOther(1)
    \/ MainClipboardLast(1)
    \/ MainClipboardSet(1, TRUE)
    \/ PollGet(1)
    \/ \E timestamp \in Now : PollCompare(1, timestamp)
    \/ PollSend(1)
    \/ \E text \in UserTexts : UserCopy(1, text)

SpecEcho == InitLocal /\ [][NextEcho]_vars

\* C35: the poller broadcasts a text only when the user copied it, and once
\* for each copy: a text a peer sent and the main loop applied is not
\* broadcast, and a text that was broadcast before is not broadcast again.
C35_OnlyLocalEditsBroadcast ==
    \A i \in Inst, x \in Copied :
        Occurrences(rHist[i].cast, x) <= Occurrences(rHist[i].copied, x)

(***************************************************************************)
(* Handshakes with a relay in the network.                                 *)
(***************************************************************************)
\* A relay connects to the listener of instance i.
RelayConnect(i) ==
    /\ Len(rConns) < MaxConns
    /\ \E f \in Relays : rConns' = Append(rConns, NewConn(f, i))
    /\ rEp' = Append(rEp, [d |-> NoEp, a |-> NoEp])
    /\ UNCHANGED <<cmVars, fVars, rMain, rHist>>
    /\ UNCHANGED <<rPoll, rPsk, rTrust, rTrustFile, rPeers, rEvents, rSeen, rDq, rAcc,
                   rDial, rClip, rLast>>

\* Daemon 1, started with --psk s, and a relay that announces itself under
\* the id 2 and connects to the listener of daemon 1.
NextRelay ==
    \/ \E addr \in Relays : ServiceResolved(1, 2, addr)
    \/ DialLoop(1)
    \/ AcceptLoop(1)
    \/ RelayConnect(1)

SpecRelay == InitLocal /\ [][NextRelay]_vars

\* The endpoint h holds the key.
KnowsPsk(h, key) ==
    IF h \in Inst THEN rPsk[h] = key
    ELSE IF h \in Relays THEN key = RelayKey
    ELSE TRUE

\* C36: handshake_outbound returns Ok only on a connection to an endpoint that
\* holds the PSK of the dialing instance, whatever that endpoint relays.
C36_OutboundOkOnlyWithPsk ==
    \A c \in ConnIds :
        (rConns[c].host.d \in Inst /\ rEp[c].d.hs = "Ok")
        => KnowsPsk(rConns[c].host.a, rPsk[rConns[c].host.d])

(***************************************************************************)
(* Peers that stay silent.  Both loops await the handshake inside the      *)
(* loop, so the steps a loop makes on its own are scheduled and the steps  *)
(* that need a frame of the peer are made only if the peer writes one.     *)
(***************************************************************************)
\* Daemon 1: endpoints connect to its listener and are announced to it.
NextSilent ==
    \/ \E id \in RIds, addr \in Hosts \ Inst : ServiceResolved(1, id, addr)
    \/ DialLoop(1)
    \/ AcceptLoop(1)
    \/ ForeignConnect(1)

SpecSilent == InitLocal /\ [][NextSilent]_vars

\* The steps of the loops that wait for no peer are taken; a peer may never
\* write the frame a recv of a handshake waits for.
FairSilent ==
    /\ SpecSilent
    /\ WF_vars(AcceptConn(1))
    /\ WF_vars(AcceptTrust(1))
    /\ WF_vars(\E saved \in BOOLEAN : AcceptTrustSave(1, saved))
    /\ WF_vars(AcceptInsertSpawn(1))
    /\ WF_vars(DialRecvDiscovered(1))
    /\ WF_vars(\E connected \in BOOLEAN : DialConnect(1, connected))
    /\ WF_vars(DialTrust(1))
    /\ WF_vars(\E saved \in BOOLEAN : DialTrustSave(1, saved))
    /\ WF_vars(DialInsert(1))

\* C37: whatever a peer in a handshake does or does not send, a connection
\* that waits at the listener is accepted and a discovered peer that waits in
\* the channel is taken by the dial loop.
C37_SilentPeerBlocksNobody ==
    /\ \A c \in 1..MaxConns :
          (c \in ConnIds /\ c \in Pending(1)) ~> (c \in ConnIds /\ rConns[c].accepted)
    /\ (rDq[1] # <<>>) ~> (rDq[1] = <<>>)

(***************************************************************************)
(* ConnectionManager: enable_pairing called again.  Every call spawns a    *)
(* task of its own; all of them write the one pair_mode flag.              *)
(***************************************************************************)
\* The calls of enable_pairing after the first.
MaxAgain == 1

\* enable_pairing, called while the task of an earlier call is alive.
EnablePairingAgain(n) ==
    /\ cmPairing.pc \in {"spawned", "sleeping"}
    /\ Len(cmPairing.more) < MaxAgain
    /\ cmPairing' = [cmPairing EXCEPT !.more = Append(@, [pc |-> "spawned", left |-> n])]
    /\ UNCHANGED <<cmPeers, cmAllowed, cmFile, cmPairMode, cmPsk, cmTasks, cmInbound>>
    /\ UNCHANGED <<rVars, fVars>>

\* The task of a later call: *pair_mode.write() = true, then it sleeps.
PairingSetAgain(k) ==
    /\ k \in 1..Len(cmPairing.more)
    /\ cmPairing.more[k].pc = "spawned"
    /\ cmPairMode' = TRUE
    /\ cmPairing' = [cmPairing EXCEPT !.more[k].pc = "sleeping"]
    /\ UNCHANGED <<cmPeers, cmAllowed, cmFile, cmPsk, cmTasks, cmInbound>>
    /\ UNCHANGED <<rVars, fVars>>

\* The task of a later call after its sleep: *pair_mode.write() = false.
PairingExpireAgain(k) ==
    /\ k \in 1..Len(cmPairing.more)
    /\ cmPairing.more[k].pc = "sleeping"
    /\ sleep_elapsed(cmPairing.more[k])
    /\ cmPairMode' = FALSE
    /\ cmPairing' = [cmPairing EXCEPT !.more[k].pc = "done"]
    /\ UNCHANGED <<cmPeers, cmAllowed, cmFile, cmPsk, cmTasks, cmInbound>>
    /\ UNCHANGED <<rVars, fVars>>

\* The pairing tasks that sleep, the first one and the later ones.
Sleepers == 
    (IF cmPairing.pc = "sleeping" THEN {cmPairing.left} ELSE {})
    \cup {cmPairing.more[k].left : k \in {j \in 1..Len(cmPairing.more) :
                                             cmPairing.more[j].pc = "sleeping"}}

Slept(task) == IF task.pc = "sleeping" THEN [task EXCEPT !.left = @ - 1] ELSE task

\* One tick of the clock: it passes for every task that sleeps, and no task
\* sleeps beyond its duration.
PairingTickAll ==
    /\ Sleepers # {}
    /\ \A left \in Sleepers : left > 0
    /\ cmPairing' = [Slept(cmPairing) EXCEPT
                        !.more = [k \in 1..Len(cmPairing.more) |-> Slept(cmPairing.more[k])]]
    /\ UNCHANGED <<cmPeers, cmAllowed, cmFile, cmPairMode, cmPsk, cmTasks, cmInbound>>
    /\ UNCHANGED <<rVars, fVars>>

NextAgain ==
    \/ \E n \in PairSeconds : EnablePairing(n)
    \/ \E n \in PairSeconds : EnablePairingAgain(n)
    \/ PairingSet
    \/ \E k \in 1..MaxAgain : PairingSetAgain(k)
    \/ PairingTickAll
    \/ PairingExpire
    \/ \E k \in 1..MaxAgain : PairingExpireAgain(k)

SpecAgain == InitCM /\ [][NextAgain]_vars

\* C38: while the window of any call of enable_pairing is open, that is while
\* its task has set the flag and its sleep has not ended, pairing mode is on.
C38_LaterWindowKeepsPairing == (\E left \in Sleepers : left > 0) => cmPairMode

(***************************************************************************)
(* src/shared/src/network.rs: NetworkManager.  The listener thread, one    *)
(* dial thread per entry of peers and one thread per accepted connection   *)
(* share the table connections; every lock() covers one statement.         *)
(***************************************************************************)
\* The addresses of the configured peers, the addresses inbound connections
\* come from, and the peers lists of the configuration.
NmPeers == {1, 2}
NmSources == {1, 3}
NmAddrs == NmPeers \cup NmSources
NmConfigs == {<<1>>, <<1, 2>>, <<1, 1>>}
\* The handler threads of the listener that run at once, per address.
MaxInHandlers == 2

\* NetworkManager::new, start_listener and start_peer_connections
NmStart(peers) ==
    [peers |-> peers, table |-> {}, listener |-> [pc |-> "accept", addr |-> 0],
     dial |-> [t \in 1..Len(peers) |-> [pc |-> "check", peer |-> peers[t]]],
     incoming |-> [a \in NmSources |-> 0]]

\* HashMap<SocketAddr, ConnectionInfo>: contains_key, insert, remove
NmContains(table, addr) == \E e \in table : e.addr = addr
NmInsert(table, addr, is_incoming) ==
    {e \in table : e.addr # addr} \cup {[addr |-> addr, is_incoming |-> is_incoming]}
NmRemove(table, addr) == {e \in table : e.addr # addr}

\* Listener thread: listener.accept returns a connection from addr, and
\* should_accept is computed under the lock.
NmAccept(addr) ==
    /\ nm.listener.pc = "accept"
    /\ nm' = [nm EXCEPT !.listener =
                 IF ~NmContains(nm.table, addr) THEN [pc |-> "insert", addr |-> addr]
                 ELSE @]
    /\ UNCHANGED <<fnArgs, fnRet, sel, cb, cmVars, rVars>>

\* Listener thread: the insert under a second lock and the spawn of the
\* thread that runs the handler.
NmAcceptInsert ==
    LET addr == nm.listener.addr
    IN  /\ nm.listener.pc = "insert"
        /\ nm.incoming[addr] < MaxInHandlers
        /\ nm' = [nm EXCEPT !.table = NmInsert(@, addr, TRUE),
                            !.incoming[addr] = @ + 1,
                            !.listener = [pc |-> "accept", addr |-> 0]]
        /\ UNCHANGED <<fnArgs, fnRet, sel, cb, cmVars, rVars>>

\* A thread of the listener: handler(stream, addr) returns and the entry of
\* addr is removed.
NmIncomingDone(addr) ==
    /\ nm.listener.pc # "none"
    /\ nm.incoming[addr] > 0
    /\ nm' = [nm EXCEPT !.table = NmRemove(@, addr), !.incoming[addr] = @ - 1]
    /\ UNCHANGED <<fnArgs, fnRet, sel, cb, cmVars, rVars>>

\* Dial thread t: should_connect is computed under the lock.
NmDialCheck(t) ==
    /\ t \in 1..Len(nm.dial)
    /\ nm.dial[t].pc = "check"
    /\ nm' = [nm EXCEPT !.dial[t].pc =
                 IF ~NmContains(nm.table, nm.dial[t].peer) THEN "connect" ELSE "sleep"]
    /\ UNCHANGED <<fnArgs, fnRet, sel, cb, cmVars, rVars>>

\* Dial thread t: TcpStream::connect and, when it succeeds, the insert under
\* a second lock; then the handler runs in this thread.
NmDialConnect(t, connected) ==
    /\ t \in 1..Len(nm.dial)
    /\ nm.dial[t].pc = "connect"
    /\ nm' = IF connected
             THEN [nm EXCEPT !.table = NmInsert(@, nm.dial[t].peer, FALSE),
                             !.dial[t].pc = "handle"]
             ELSE [nm EXCEPT !.dial[t].pc = "sleep"]
    /\ UNCHANGED <<fnArgs, fnRet, sel, cb, cmVars, rVars>>

\* Dial thread t: handler(stream, peer_addr) returns, the entry of the peer
\* is removed and the thread sleeps for reconnect_delay.
NmDialDone(t) ==
    /\ t \in 1..Len(nm.dial)
    /\ nm.dial[t].pc = "handle"
    /\ nm' = [nm EXCEPT !.table = NmRemove(@, nm.dial[t].peer), !.dial[t].pc = "sleep"]
    /\ UNCHANGED <<fnArgs, fnRet, sel, cb, cmVars, rVars>>

\* Dial thread t: thread::sleep(reconnect_delay) returns.
NmDialWake(t) ==
    /\ t \in 1..Len(nm.dial)
    /\ nm.dial[t].pc = "sleep"
    /\ nm' = [nm EXCEPT !.dial[t].pc = "check"]
    /\ UNCHANGED <<fnArgs, fnRet, sel, cb, cmVars, rVars>>

InitNet ==
    /\ RInit /\ CMIdle
    /\ fnArgs = NoCall /\ fnRet = NotReturned
    /\ sel = SelIdle /\ cb = CbIdle
    /\ nm \in {NmStart(peers) : peers \in NmConfigs}

NextNet ==
    \/ \E addr \in NmSources : NmAccept(addr)
    \/ NmAcceptInsert
    \/ \E addr \in NmSources : NmIncomingDone(addr)
    \/ \E t \in 1..2 : NmDialCheck(t)
    \/ \E t \in 1..2, connected \in BOOLEAN : NmDialConnect(t, connected)
    \/ \E t \in 1..2 : NmDialDone(t)
    \/ \E t \in 1..2 : NmDialWake(t)

SpecNet == InitNet /\ [][NextNet]_vars

\* The handlers that run for addr: in threads of the listener and in dial
\* threads.
NmLive(addr) ==
    (IF addr \in NmSources THEN nm.incoming[addr] ELSE 0)
    + Cardinality({t \in 1..Len(nm.dial) :
                      nm.dial[t].peer = addr /\ nm.dial[t].pc = "handle"})

\* C39: an address has an entry in the table exactly while one handler runs
\* for it, no second handler runs for an address that has an entry, and a dial
\* thread whose handler has ended sleeps for reconnect_delay before it
\* checks and connects again.
C39_TableMatchesHandlers ==
    /\ [](\A addr \in NmAddrs :
             NmLive(addr) = IF NmContains(nm.table, addr) THEN 1 ELSE 0)
    /\ [][\A t \in 1..Len(nm.dial) :
             (nm.dial[t].pc = "handle" /\ nm'.dial[t].pc # "handle")
             => nm'.dial[t].pc = "sleep"]_vars

(***************************************************************************)
(* src/shared/src/clipboard.rs with src/linux/src/clipboard_provider.rs:   *)
(* ClipboardManager::run, one thread that owns the provider.               *)
(***************************************************************************)
\* The texts of the clipboard ("" is the empty clipboard), the contents
\* peers send, the streams of the connections list.
CbTexts == {"", "a", "b"}
CbRemoteTexts == {"", "a"}
CbConns == {1, 2}
\* The updates that wait in update_rx and the events sent to the monitor.
MaxUpdates == 2
MaxCbEvents == 3

\* enum ClipboardEvent
LocalChange(content) == [t |-> "LocalChange", content |-> content]
RemoteChange(content) == [t |-> "RemoteChange", content |-> content]

\* LinuxClipboardProvider::set_text: last_content is written before the
\* clipboard, whether or not arboard accepts the text.
set_text(clip, text, ok) ==
    [ok |-> ok, last |-> text, clip |-> IF ok THEN text ELSE clip]

CheckChangedIgnoresLast(clip, last, got) ==
    IF got /\ clip # ""
    THEN [some |-> TRUE, content |-> clip, last |-> clip]
    ELSE [some |-> FALSE, content |-> "", last |-> last]

\* LinuxClipboardProvider::check_changed; got is whether get_text returned Ok.
check_changed(clip, last, got) ==
    IF got /\ clip # last /\ clip # ""
    THEN [some |-> TRUE, content |-> clip, last |-> clip]
    ELSE [some |-> FALSE, content |-> "", last |-> last]

\* spawn_clipboard_manager with a provider made by LinuxClipboardProvider::new
CbStart(clip) ==
    [on |-> TRUE, clip |-> clip, last |-> "", updates |-> <<>>, events |-> <<>>,
     conns |-> {}, wire |-> [c \in CbConns |-> <<>>]]

\* The user copies a text or clears the clipboard.
CbUserCopy(text) ==
    /\ cb.on
    /\ cb.clip # text
    /\ cb' = [cb EXCEPT !.clip = text]
    /\ UNCHANGED <<fnArgs, fnRet, sel, nm, cmVars, rVars>>

\* ConnectionHandler::handle_connection: the stream is pushed to the
\* connections list, and removed from it when the connection ends.
CbConnect(c) ==
    /\ cb.on
    /\ c \notin cb.conns
    /\ cb' = [cb EXCEPT !.conns = @ \cup {c}]
    /\ UNCHANGED <<fnArgs, fnRet, sel, nm, cmVars, rVars>>

CbDisconnect(c) ==
    /\ cb.on
    /\ c \in cb.conns
    /\ cb' = [cb EXCEPT !.conns = @ \ {c}]
    /\ UNCHANGED <<fnArgs, fnRet, sel, nm, cmVars, rVars>>

\* ConnectionHandler::handle_connection: clipboard_tx.send(msg.content)
CbRemote(content) ==
    /\ cb.on
    /\ cb.conns # {}
    /\ Len(cb.updates) < MaxUpdates
    /\ cb' = [cb EXCEPT !.updates = Append(@, content)]
    /\ UNCHANGED <<fnArgs, fnRet, sel, nm, cmVars, rVars>>

\* run, recv_timeout returns Ok(content): set_text and, when it succeeds,
\* the RemoteChange event.
CbRunUpdate(ok) ==
    /\ cb.on
    /\ cb.updates # <<>>
    /\ Len(cb.events) < MaxCbEvents
    /\ LET content == Head(cb.updates)
           p == set_text(cb.clip, content, ok)
       IN  cb' = [cb EXCEPT !.updates = Tail(@), !.clip = p.clip, !.last = p.last,
                            !.events = IF p.ok THEN Append(@, RemoteChange(content))
                                       ELSE @]
    /\ UNCHANGED <<fnArgs, fnRet, sel, nm, cmVars, rVars>>

\* broadcast_clipboard_change: the message is written to every stream of the
\* connections list.
Broadcast(wire, conns, content) ==
    [c \in CbConns |-> IF c \in conns THEN Append(wire[c], content) ELSE wire[c]]

\* run, recv_timeout returns Timeout: check_changed and, for Some(content),
\* the broadcast and the LocalChange event.
CbRunTimeout(got) ==
    /\ cb.on
    /\ cb.updates = <<>>
    /\ Len(cb.events) < MaxCbEvents
    /\ LET r == check_changed(cb.clip, cb.last, got)
       IN  cb' = IF r.some
                 THEN [cb EXCEPT !.last = r.last,
                                 !.wire = Broadcast(@, cb.conns, r.content),
                                 !.events = Append(@, LocalChange(r.content))]
                 ELSE [cb EXCEPT !.last = r.last]
    /\ UNCHANGED <<fnArgs, fnRet, sel, nm, cmVars, rVars>>

InitCb ==
    /\ RInit /\ CMIdle
    /\ fnArgs = NoCall /\ fnRet = NotReturned
    /\ sel = SelIdle /\ nm = NmIdle
    /\ cb \in {CbStart(clip) : clip \in CbTexts}

NextCb ==
    \/ \E text \in CbTexts : CbUserCopy(text)
    \/ \E c \in CbConns : CbConnect(c)
    \/ \E c \in CbConns : CbDisconnect(c)
    \/ \E content \in CbRemoteTexts : CbRemote(content)
    \/ \E ok \in BOOLEAN : CbRunUpdate(ok)
    \/ \E got \in BOOLEAN : CbRunTimeout(got)

SpecCb == InitCb /\ [][NextCb]_vars

\* A turn of run has taken the update at the head of update_rx.
CbTookUpdate == cb.updates # <<>> /\ cb'.updates = Tail(cb.updates)

\* A turn of run has sent the event e to the monitor.
CbSent(e) == cb'.events = Append(cb.events, e)

====
